---- MODULE Spec2Model ----
(***************************************************************************)
(* A model of CursesMinesweeper: the Model (mine counting, generation,     *)
(* the binary save format, loading) and the GameView engine (cursor moves, *)
(* toggle_flag, open_cell, quit).                                          *)
(*                                                                         *)
(* Conventions.  The minefield is a function y -> x -> Cell, indexed from  *)
(* 0 as minefield[y][x] is in the source.  None is modelled by NoOption    *)
(* (difficulty) and by the empty function (minefield).  The save file is a *)
(* record: whether it exists, and its bytes.          Python integers      *)
(* wider than 31 bits (the 40-bit header) are bit vectors 0..39 -> {0,1}.  *)
(***************************************************************************)
EXTENDS Integers, Sequences, FiniteSets, TLC

VARIABLES
    view,          \* Model.view: "menu", "generating", "loading", "game"
    difficulty,    \* Model.difficulty (an Option)
    minefield,     \* Model.minefield, shared by reference with GameView.minefield
    hover_x,       \* Model.hover_x
    hover_y,       \* Model.hover_y
    num_mines,     \* Model.num_mines
    num_flagged,   \* Model.num_flagged
    gen_progress,  \* Model.gen_progress
    save_file,     \* the bytes of Model.SAVE_FILE, or NoFile
    worker,        \* the Generator / Loader thread: its position and locals
    gv,            \* the GameView object: hover, counters, state
    call           \* history: the last GameView handler run and what it met

vars == <<view, difficulty, minefield, hover_x, hover_y, num_mines,
          num_flagged, gen_progress, save_file, worker, gv, call>>

----------------------------------------------------------------------------
(* Bounds of the model. *)

\* The whole program (Spec): the largest length, height and number of cells
\* of a field.
MaxLength == 3

MaxHeight == 2

MaxCells == 3

\* One game (SpecGame): the largest length, height and number of cells of a
\* field.
GameMaxLength == 3

GameMaxHeight == 2

GameMaxCells == 6

\* One game at density 100, where a single cell is safe (SpecDense): the
\* largest length, height and number of cells of a field.
DenseMaxLength == 3

DenseMaxHeight == 3

DenseMaxCells == 9
\* SpecDense: the most flags the player keeps on the field.
DenseMaxFlags == 1

\* Generation, save and load without play (SpecGen): the largest length,
\* height and number of cells of a field.
GenMaxLength == 3

GenMaxHeight == 3

GenMaxCells == 9

\* calculate_mines alone (SpecCalc): the largest length and height.
MaxCalcDim == 12

\* SpecOpen: the largest field, and the most flags the player keeps on it.
OpenMaxLength == 3
OpenMaxHeight == 2
OpenMaxCells == 6
OpenMaxFlags == 2

\* SpecHeader: how many values next to each end of a header field's range
\* are tried.
HeaderSpread == 2

\* The game with its goto window (SpecGoto).
GotoMaxLength == 4

GotoMaxHeight == 2

GotoMaxCells == 4

\* Fields that hold a full 3x3 block of mines (SpecBlock).
BlockMaxLength == 4

BlockMaxHeight == 3

BlockMaxCells == 12

\* One large field (SpecLarge): its length and height.
LargeLength == 20

LargeHeight == 20

\* The densities a caller selects.
Densities == {0, 50, 100}

----------------------------------------------------------------------------
(* utility.py *)

Option(l, h, d) == [l |-> l, h |-> h, d |-> d]

Point(x, y) == [x |-> x, y |-> y]

\* State enum of utility.py.
RUNNING == "RUNNING"
WON == "WON"
LOST == "LOST"

\* custom_maximums: the largest length and height of a field.
MaxDimension == 1024

\* difficulty = None
NoOption == Option(0, 0, 0)

\* The save file: whether it exists, and its bytes.
File(bytes) == [exists |-> TRUE, bytes |-> bytes]

\* no save file on disk
NoFile == [exists |-> FALSE, bytes |-> <<>>]

Max(a, b) == IF a >= b THEN a ELSE b

Min(a, b) == IF a <= b THEN a ELSE b

\* Python's round() on a non-negative rational num/den: to nearest, ties to
\* the even integer.
Round(num, den) ==
    LET f == num \div den
        r == num % den
    IN  IF 2 * r > den THEN f + 1
        ELSE IF 2 * r < den THEN f
        ELSE IF f % 2 = 0 THEN f ELSE f + 1

----------------------------------------------------------------------------
(* Model: cells, the empty field, numbers, the mine count *)

Cell(opened, mine, flagged, number) ==
    [opened |-> opened, mine |-> mine, flagged |-> flagged, number |-> number]

mk_mt_minefield(length, height) ==
    [y \in 0..(height - 1) |->
        [x \in 0..(length - 1) |-> Cell(FALSE, FALSE, FALSE, 0)]]

\* The range without the + 1 that makes its end inclusive.
NearRange_exclusive(pos, lo, hi) == Max(lo, pos - 1)..(Min(hi - 1, pos + 1) - 1)

\* range(max(lo, pos-1), min(hi-1, pos+1)+1) as a set
NearRange(pos, lo, hi) == Max(lo, pos - 1)..Min(hi - 1, pos + 1)

\* increment_numbers without the bound on x: the three rows are incremented
\* over their whole length.
increment_numbers_whole_rows(mf, x_pos, y_pos, x_min, y_min, x_max, y_max) ==
    [y \in DOMAIN mf |->
        [x \in DOMAIN mf[y] |->
            IF y \in NearRange(y_pos, y_min, y_max)
            THEN [mf[y][x] EXCEPT !.number = @ + 1]
            ELSE mf[y][x]]]

\* increment_numbers incrementing the centre cell alone.
increment_numbers_centre_only(mf, x_pos, y_pos, x_min, y_min, x_max, y_max) ==
    [y \in DOMAIN mf |->
        [x \in DOMAIN mf[y] |->
            IF x = x_pos /\ y = y_pos
            THEN [mf[y][x] EXCEPT !.number = @ + 1]
            ELSE mf[y][x]]]

increment_numbers(mf, x_pos, y_pos, x_min, y_min, x_max, y_max) ==
    [y \in DOMAIN mf |->
        [x \in DOMAIN mf[y] |->
            IF /\ x \in NearRange(x_pos, x_min, x_max)
               /\ y \in NearRange(y_pos, y_min, y_max)
            THEN [mf[y][x] EXCEPT !.number = @ + 1]
            ELSE mf[y][x]]]

\* calculate_mines without the lower clamp max(min_mines, .).
calculate_mines_no_minimum(option) ==
    LET max_mines == option.l * option.h - 1
        raw_mines == (option.l * option.h * option.d) \div 100
    IN  Min(max_mines, raw_mines)

\* calculate_mines rounding to nearest where the code takes the floor.
calculate_mines_rounded(option) ==
    LET min_mines == 1
        max_mines == option.l * option.h - 1
        raw_mines == (option.l * option.h * option.d + 50) \div 100
    IN  Min(max_mines, Max(min_mines, raw_mines))

calculate_mines(option) ==
    LET min_mines == 1
        max_mines == option.l * option.h - 1
        raw_mines == (option.l * option.h * option.d) \div 100
    IN  Min(max_mines, Max(min_mines, raw_mines))

----------------------------------------------------------------------------
(* Integers as bits.  A wide integer is a function 0..39 -> {0,1}, bit 0   *)
(* the least significant; narrower integers are TLC integers.              *)

\* The bit positions of the integer that int.to_bytes(5, "big") writes.
WideBits == 0..39

\* (v & 0x3FF) << shift, as a wide integer
MaskShift(v, shift) ==
    [i \in WideBits |->
        IF i >= shift /\ i < shift + 10
        THEN ((v % 1024) \div (2 ^ (i - shift))) % 2
        ELSE 0]

\* a | b on wide integers
WideOr(a, b) == [i \in WideBits |-> IF a[i] = 1 \/ b[i] = 1 THEN 1 ELSE 0]

\* (w >> shift) & 0x3FF
ShiftMask(w, shift) ==
    LET bit(k) == IF shift + k \in WideBits THEN w[shift + k] ELSE 0
    IN  bit(0) + 2 * bit(1) + 4 * bit(2) + 8 * bit(3) + 16 * bit(4)
        + 32 * bit(5) + 64 * bit(6) + 128 * bit(7) + 256 * bit(8)
        + 512 * bit(9)

\* w.to_bytes(5, "big"): byte 1 is the most significant
wide_to_bytes(w) ==
    [j \in 1..5 |->
        LET lo == 8 * (5 - j)
        IN  w[lo] + 2 * w[lo + 1] + 4 * w[lo + 2] + 8 * w[lo + 3]
            + 16 * w[lo + 4] + 32 * w[lo + 5] + 64 * w[lo + 6]
            + 128 * w[lo + 7]]

\* int.from_bytes(bs, "big") for at most 5 bytes, as a wide integer
wide_from_bytes(bs) ==
    [i \in WideBits |->
        LET j == Len(bs) - (i \div 8)
        IN  IF j >= 1 THEN (bs[j] \div (2 ^ (i % 8))) % 2 ELSE 0]

\* a | b on non-negative integers
RECURSIVE BitOr(_, _)
BitOr(a, b) ==
    IF a = 0 THEN b
    ELSE IF b = 0 THEN a
    ELSE (IF a % 2 = 1 \/ b % 2 = 1 THEN 1 ELSE 0)
         + 2 * BitOr(a \div 2, b \div 2)

\* v.to_bytes(3, "big")
to_bytes3(v) == <<(v \div 65536) % 256, (v \div 256) % 256, v % 256>>

\* int.from_bytes(bs, "big") for at most 3 bytes
RECURSIVE from_bytes(_)
from_bytes(bs) ==
    IF Len(bs) = 0 THEN 0
    ELSE 256 * from_bytes(SubSeq(bs, 1, Len(bs) - 1)) + bs[Len(bs)]

\* True and False as the integers Python shifts
BoolInt(b) == IF b THEN 1 ELSE 0

\* file.read(n) at position pos (0-based): at most n bytes, fewer at the end
Read(file, pos, n) == SubSeq(file, pos + 1, Min(Len(file), pos + n))

----------------------------------------------------------------------------
(* Model.save_minefield *)

\* save_header with the height in the top field and the length below it.
save_header_height_first(length, height, hx, hy) ==
    LET piece_a == MaskShift(height - 1, 30)
        piece_b == MaskShift(length - 1, 20)
        piece_c == MaskShift(hx, 10)
        piece_d == MaskShift(hy, 0)
        combined == WideOr(WideOr(WideOr(piece_a, piece_b), piece_c), piece_d)
    IN  wide_to_bytes(combined)

\* The 5-byte header.
save_header(length, height, hx, hy) ==
    LET piece_a == MaskShift(length - 1, 30)
        piece_b == MaskShift(height - 1, 20)
        piece_c == MaskShift(hx, 10)
        piece_d == MaskShift(hy, 0)
        combined == WideOr(WideOr(WideOr(piece_a, piece_b), piece_c), piece_d)
    IN  wide_to_bytes(combined)

\* cell_flags with the mine bit above the opened bit.
cell_flags_mine_first(cell) ==
    BitOr(BitOr(BoolInt(cell.mine) * 4, BoolInt(cell.opened) * 2),
          BoolInt(cell.flagged))

\* The record of one cell.
cell_flags(cell) ==
    BitOr(BitOr(BoolInt(cell.opened) * 4, BoolInt(cell.mine) * 2),
          BoolInt(cell.flagged))

\* save_buffer with the first record in the lowest 3 bits.
RECURSIVE save_buffer_low_first(_, _, _, _, _)
save_buffer_low_first(mf, length, num_cells, current, buffer_index) ==
    IF buffer_index >= 8 \/ ~(current < num_cells) THEN 0
    ELSE BitOr(cell_flags(mf[current \div length][current % length])
                   * (2 ^ (3 * buffer_index)),
               save_buffer_low_first(mf, length, num_cells, current + 1,
                                     buffer_index + 1))

\* The for loop over buffer_index: the buffer after the cells from current on
\* have been put into it.
RECURSIVE save_buffer(_, _, _, _, _)
save_buffer(mf, length, num_cells, current, buffer_index) ==
    IF buffer_index >= 8 \/ ~(current < num_cells) THEN 0
    ELSE BitOr(cell_flags(mf[current \div length][current % length])
                   * (2 ^ (3 * (7 - buffer_index))),
               save_buffer(mf, length, num_cells, current + 1,
                           buffer_index + 1))

\* The while loop: one 3-byte block for every 8 cells.
RECURSIVE save_body(_, _, _, _)
save_body(mf, length, num_cells, current) ==
    IF ~(current < num_cells) THEN <<>>
    ELSE to_bytes3(save_buffer(mf, length, num_cells, current, 0))
         \o save_body(mf, length, num_cells,
                      current + Min(8, num_cells - current))

\* The bytes save_minefield writes.
save_minefield(diff, mf, hx, hy) ==
    LET length == diff.l
        height == diff.h
    IN  save_header(length, height, hx, hy)
        \o save_body(mf, length, length * height, 0)

----------------------------------------------------------------------------
(* The Model object together with the locals of the thread that runs       *)
(* generate_minefield or load_minefield on it, as one record.  The         *)
(* operators below take such a record and return the record after the      *)
(* step.                                                                   *)

\* The locals of a thread that is not running.
NoLocals ==
    [mines |-> 0, mines_left |-> 0, length |-> 0, height |-> 0,
     current |-> 0, buffer |-> 0, pos |-> 0]

Self ==
    [difficulty |-> difficulty, minefield |-> minefield,
     hover_x |-> hover_x, hover_y |-> hover_y,
     num_mines |-> num_mines, num_flagged |-> num_flagged,
     gen_progress |-> gen_progress,
     mines |-> worker.mines, mines_left |-> worker.mines_left,
     length |-> worker.length, height |-> worker.height,
     current |-> worker.current, buffer |-> worker.buffer,
     pos |-> worker.pos]

\* The locals part of such a record, with the thread's position.
Locals(self, pc) ==
    [pc |-> pc, mines |-> self.mines, mines_left |-> self.mines_left,
     length |-> self.length, height |-> self.height,
     current |-> self.current, buffer |-> self.buffer, pos |-> self.pos]

\* minefield[y][x] = cell
SetCell(mf, x, y, cell) == [mf EXCEPT ![y][x] = cell]

----------------------------------------------------------------------------
(* Model.generate_minefield, one loop iteration at a time *)

\* Lines 350-362: the parameters and the empty field.
gen_start(self) ==
    LET length == self.difficulty.l
        height == self.difficulty.h
        mines == calculate_mines(self.difficulty)
    IN  [self EXCEPT !.minefield = mk_mt_minefield(length, height),
                     !.num_mines = mines,
                     !.num_flagged = 0,
                     !.hover_x = 0,
                     !.hover_y = 0,
                     !.length = length,
                     !.height = height,
                     !.mines = mines,
                     !.mines_left = mines]

\* gen_pick counting a pick of an already mined cell as a placement.
gen_pick_counts_repeats(self, x_pos, y_pos) ==
    LET selected_cell == self.minefield[y_pos][x_pos]
        mined == SetCell(self.minefield, x_pos, y_pos,
                         [selected_cell EXCEPT !.mine = TRUE])
        mines_left == self.mines_left - 1
    IN  [self EXCEPT
            !.minefield = IF ~selected_cell.mine
                          THEN increment_numbers(mined, x_pos, y_pos, 0, 0,
                                                 self.length, self.height)
                          ELSE @,
            !.mines_left = mines_left,
            !.gen_progress = Round((self.mines - mines_left) * 100,
                                   self.mines)]

\* gen_pick publishing the share of the mines still to place.
gen_pick_publishes_left(self, x_pos, y_pos) ==
    LET selected_cell == self.minefield[y_pos][x_pos]
        mined == SetCell(self.minefield, x_pos, y_pos,
                         [selected_cell EXCEPT !.mine = TRUE])
        mines_left == self.mines_left - 1
    IN  IF ~selected_cell.mine
        THEN [self EXCEPT
                 !.minefield = increment_numbers(mined, x_pos, y_pos, 0, 0,
                                                 self.length, self.height),
                 !.mines_left = mines_left,
                 !.gen_progress = Round(mines_left * 100, self.mines)]
        ELSE self

\* gen_pick leaving mines_left as it is when it places a mine.
gen_pick_keeps_count(self, x_pos, y_pos) ==
    LET selected_cell == self.minefield[y_pos][x_pos]
        mined == SetCell(self.minefield, x_pos, y_pos,
                         [selected_cell EXCEPT !.mine = TRUE])
    IN  IF ~selected_cell.mine
        THEN [self EXCEPT
                 !.minefield = increment_numbers(mined, x_pos, y_pos, 0, 0,
                                                 self.length, self.height),
                 !.gen_progress = Round((self.mines - self.mines_left) * 100,
                                        self.mines)]
        ELSE self

\* Lines 364-379: one iteration with the random pick (x_pos, y_pos).
gen_pick(self, x_pos, y_pos) ==
    LET selected_cell == self.minefield[y_pos][x_pos]
        mined == SetCell(self.minefield, x_pos, y_pos,
                         [selected_cell EXCEPT !.mine = TRUE])
        mines_left == self.mines_left - 1
    IN  IF ~selected_cell.mine
        THEN [self EXCEPT
                 !.minefield = increment_numbers(mined, x_pos, y_pos, 0, 0,
                                                 self.length, self.height),
                 !.mines_left = mines_left,
                 !.gen_progress = Round((self.mines - mines_left) * 100,
                                        self.mines)]
        ELSE self

----------------------------------------------------------------------------
(* Model.load_minefield, one cell at a time *)

\* Lines 243-248: the four fields of the header.
load_header(file) ==
    LET header == wide_from_bytes(Read(file, 0, 5))
    IN  [hover_y |-> ShiftMask(header, 0),
         hover_x |-> ShiftMask(header, 10),
         height |-> ShiftMask(header, 20) + 1,
         length |-> ShiftMask(header, 30) + 1]

\* Lines 238-258: the counters, the header and the empty field.
load_start(self, file) ==
    LET header == load_header(file)
        length == header.length
        height == header.height
    IN  [self EXCEPT !.num_mines = 0,
                     !.num_flagged = 0,
                     !.hover_x = header.hover_x,
                     !.hover_y = header.hover_y,
                     !.minefield = mk_mt_minefield(length, height),
                     !.length = length,
                     !.height = height,
                     !.current = 0,
                     !.buffer = 0,
                     !.pos = Len(Read(file, 0, 5))]

\* Lines 259-289: one iteration of the for loop, preceded by the read of the
\* next 3 bytes when it is the first iteration of a while iteration.
load_cell(self, file) ==
    LET length == self.length
        height == self.height
        num_cells == length * height
        current == self.current
        buffer_index == current % 8
        chunk == Read(file, self.pos, 3)
        buffer == IF buffer_index = 0 THEN from_bytes(chunk) ELSE self.buffer
        pos == IF buffer_index = 0 THEN self.pos + Len(chunk) ELSE self.pos
        y_pos == current \div length
        x_pos == current % length
        cur_cell_num == self.minefield[y_pos][x_pos].number
        flags == (buffer \div (2 ^ (3 * (7 - buffer_index)))) % 8
        flagged == flags % 2
        mine == (flags \div 2) % 2
        opened == (flags \div 4) % 2
        cell == Cell(opened = 1, mine = 1, flagged = 1, cur_cell_num)
        written == SetCell(self.minefield, x_pos, y_pos, cell)
    IN  [self EXCEPT
            !.minefield = IF mine = 1
                          THEN increment_numbers(written, x_pos, y_pos, 0, 0,
                                                 length, height)
                          ELSE written,
            !.num_flagged = IF flagged = 1 THEN @ + 1 ELSE @,
            !.num_mines = IF mine = 1 THEN @ + 1 ELSE @,
            !.buffer = buffer,
            !.pos = pos,
            !.current = current + 1,
            !.gen_progress = Round((current + 1) * 100, num_cells)]

\* Lines 291-293: the difficulty.
load_finish(self) ==
    LET density == ((self.num_mines * 100) \div self.length) * self.height
    IN  [self EXCEPT !.difficulty = Option(self.length, self.height, density)]

\* The while loop, run to its end.
RECURSIVE load_loop(_, _)
load_loop(self, file) ==
    IF self.current < self.length * self.height
    THEN load_loop(load_cell(self, file), file)
    ELSE self

\* load_minefield as one call.
load_minefield(self, file) ==
    IF ~file.exists THEN self
    ELSE load_finish(load_loop(load_start(self, file.bytes), file.bytes))

----------------------------------------------------------------------------
(* uielement.py: NumberField *)

\* NumberField.__init__, lines 218-225.
NumberField(value, maximum) ==
    [minimum |-> Min(value, 0), maximum |-> maximum,
     value |-> Min(value, maximum)]

set_minimum(field, minimum) ==
    [field EXCEPT !.minimum = minimum, !.value = Max(@, minimum)]

set_value(field, value) == [field EXCEPT !.value = value]

fix_bounds(field) ==
    [field EXCEPT !.value = Min(Max(@, field.minimum), field.maximum)]

\* add_digit without the check against the maximum.
add_digit_unchecked(field, digit) == set_value(field, field.value * 10 + digit)

add_digit(field, digit) ==
    LET added == set_value(field, field.value * 10 + digit)
    IN  IF added.value > added.maximum THEN fix_bounds(added) ELSE added

backspace(field) == set_value(field, field.value \div 10)

----------------------------------------------------------------------------
(* GameView *)

\* No GameView object exists.
NoGameView ==
    [hover_x |-> 0, hover_y |-> 0, difficulty |-> NoOption, num_mines |-> 0,
     num_flagged |-> 0, state |-> "NONE", show_goto |-> FALSE,
     pos_x |-> NumberField(0, 0), pos_y |-> NumberField(0, 0),
     focused_ui |-> "None"]

\* GameView.__init__ starting its flag counter at 0.
GameView_counts_from_zero(self) ==
    [hover_x |-> self.hover_x, hover_y |-> self.hover_y,
     difficulty |-> self.difficulty, num_mines |-> self.num_mines,
     num_flagged |-> 0, state |-> RUNNING,
     show_goto |-> FALSE,
     pos_x |-> set_minimum(NumberField(0, self.difficulty.l - 1), 0),
     pos_y |-> set_minimum(NumberField(0, self.difficulty.h - 1), 0),
     focused_ui |-> "None"]

\* GameView.__init__, lines 28-58 and 122-132, with make_goto_graphics,
\* lines 447-461.
GameView(self) ==
    [hover_x |-> self.hover_x, hover_y |-> self.hover_y,
     difficulty |-> self.difficulty, num_mines |-> self.num_mines,
     num_flagged |-> self.num_flagged, state |-> RUNNING,
     show_goto |-> FALSE,
     pos_x |-> set_minimum(NumberField(0, self.difficulty.l - 1), 0),
     pos_y |-> set_minimum(NumberField(0, self.difficulty.h - 1), 0),
     focused_ui |-> "None"]

show_goto_graphics(g) ==
    [g EXCEPT !.show_goto = TRUE,
              !.pos_x = set_value(@, g.hover_x),
              !.pos_y = set_value(@, g.hover_y),
              !.focused_ui = "pos_x"]

hide_goto_graphics(g) == [g EXCEPT !.show_goto = FALSE, !.focused_ui = "None"]

toggle_goto_graphics(g) ==
    IF g.show_goto
    THEN hide_goto_graphics([g EXCEPT !.hover_x = g.pos_x.value,
                                      !.hover_y = g.pos_y.value])
    ELSE show_goto_graphics(g)

\* goto_random_cell when the cell it ends on is (pos_x, pos_y): found by
\* one of the 50 tries, or taken from the list of lines 570-582.
goto_random_cell(g, pos_x, pos_y, by_try) ==
    LET there == [g EXCEPT !.hover_x = pos_x, !.hover_y = pos_y]
    IN  IF by_try THEN hide_goto_graphics(there) ELSE there

\* The points of the two nested range loops around (px, py), x outermost,
\* in the order the loops visit them.
Near(px, py, diff) ==
    LET xlo == Max(0, px - 1)
        xhi == Min(diff.l - 1, px + 1) + 1
        ylo == Max(0, py - 1)
        yhi == Min(diff.h - 1, py + 1) + 1
        ny == yhi - ylo
    IN  [k \in 1..((xhi - xlo) * ny) |->
            Point(xlo + ((k - 1) \div ny), ylo + ((k - 1) % ny))]

\* The points of seq that are neither opened nor flagged.
Closed(mf, seq) ==
    SelectSeq(seq, LAMBDA p : ~mf[p.y][p.x].opened /\ ~mf[p.y][p.x].flagged)

\* The points of seq that are not opened.
Unopened(mf, seq) == SelectSeq(seq, LAMBDA p : ~mf[p.y][p.x].opened)

\* The points of seq that are flagged.
Flagged(mf, seq) == SelectSeq(seq, LAMBDA p : mf[p.y][p.x].flagged)

\* GameView.move, lines 183-208.
move(g, direction, amount) ==
    IF g.show_goto
    THEN [g EXCEPT !.focused_ui = IF @ = "pos_x" THEN "pos_y" ELSE "pos_x"]
    ELSE IF direction = "U" THEN [g EXCEPT !.hover_y = Max(0, @ - amount)]
    ELSE IF direction = "L" THEN [g EXCEPT !.hover_x = Max(0, @ - amount)]
    ELSE IF direction = "D"
    THEN [g EXCEPT !.hover_y = Min(g.difficulty.h - 1, @ + amount)]
    ELSE IF direction = "R"
    THEN [g EXCEPT !.hover_x = Min(g.difficulty.l - 1, @ + amount)]
    ELSE g

\* Lines 624-628: the loop that flags the cells of cell_mound.
RECURSIVE flag_cells(_, _, _, _)
flag_cells(mf, g, cell_mound, i) ==
    IF i > Len(cell_mound) THEN [minefield |-> mf, gv |-> g]
    ELSE LET point == cell_mound[i]
             cell == mf[point.y][point.x]
         IN  IF ~cell.flagged
             THEN flag_cells(SetCell(mf, point.x, point.y,
                                     [cell EXCEPT !.flagged = TRUE]),
                             [g EXCEPT !.num_flagged = @ + 1],
                             cell_mound, i + 1)
             ELSE flag_cells(mf, g, cell_mound, i + 1)

\* toggle_flag without the check of the state at its entry.
toggle_flag_any_state(mf, g) ==
    LET hovered_cell == mf[g.hover_y][g.hover_x]
        near == Near(g.hover_x, g.hover_y, g.difficulty)
        unopened == Len(Unopened(mf, near))
        temp_mound == Closed(mf, near)
        cell_mound == IF unopened = hovered_cell.number
                      THEN temp_mound ELSE <<>>
    IN  IF ~hovered_cell.opened
        THEN IF hovered_cell.flagged
             THEN [minefield |-> SetCell(mf, g.hover_x, g.hover_y,
                                   [hovered_cell EXCEPT !.flagged = FALSE]),
                   gv |-> [g EXCEPT !.num_flagged = @ - 1]]
             ELSE [minefield |-> SetCell(mf, g.hover_x, g.hover_y,
                                   [hovered_cell EXCEPT !.flagged = TRUE]),
                   gv |-> [g EXCEPT !.num_flagged = @ + 1]]
        ELSE flag_cells(mf, g, cell_mound, 1)

\* toggle_flag that leaves num_flagged alone when it removes a flag.
toggle_flag_no_decrement(mf, g) ==
    IF g.state = WON \/ g.state = LOST THEN [minefield |-> mf, gv |-> g]
    ELSE
    LET hovered_cell == mf[g.hover_y][g.hover_x]
        near == Near(g.hover_x, g.hover_y, g.difficulty)
        unopened == Len(Unopened(mf, near))
        temp_mound == Closed(mf, near)
        cell_mound == IF unopened = hovered_cell.number
                      THEN temp_mound ELSE <<>>
    IN  IF ~hovered_cell.opened
        THEN IF hovered_cell.flagged
             THEN [minefield |-> SetCell(mf, g.hover_x, g.hover_y,
                                   [hovered_cell EXCEPT !.flagged = FALSE]),
                   gv |-> g]
             ELSE [minefield |-> SetCell(mf, g.hover_x, g.hover_y,
                                   [hovered_cell EXCEPT !.flagged = TRUE]),
                   gv |-> [g EXCEPT !.num_flagged = @ + 1]]
        ELSE flag_cells(mf, g, cell_mound, 1)

\* toggle_flag that flags around an opened cell whatever the count of
\* unopened cells.
toggle_flag_any_count(mf, g) ==
    IF g.state = WON \/ g.state = LOST THEN [minefield |-> mf, gv |-> g]
    ELSE
    LET hovered_cell == mf[g.hover_y][g.hover_x]
        near == Near(g.hover_x, g.hover_y, g.difficulty)
        unopened == Len(Unopened(mf, near))
        temp_mound == Closed(mf, near)
        cell_mound == temp_mound
    IN  IF ~hovered_cell.opened
        THEN IF hovered_cell.flagged
             THEN [minefield |-> SetCell(mf, g.hover_x, g.hover_y,
                                   [hovered_cell EXCEPT !.flagged = FALSE]),
                   gv |-> [g EXCEPT !.num_flagged = @ - 1]]
             ELSE [minefield |-> SetCell(mf, g.hover_x, g.hover_y,
                                   [hovered_cell EXCEPT !.flagged = TRUE]),
                   gv |-> [g EXCEPT !.num_flagged = @ + 1]]
        ELSE flag_cells(mf, g, cell_mound, 1)

\* toggle_flag that toggles the flag of the hovered cell, opened or not.
toggle_flag_on_opened(mf, g) ==
    IF g.state = WON \/ g.state = LOST THEN [minefield |-> mf, gv |-> g]
    ELSE
    LET hovered_cell == mf[g.hover_y][g.hover_x]
    IN  IF hovered_cell.flagged
        THEN [minefield |-> SetCell(mf, g.hover_x, g.hover_y,
                              [hovered_cell EXCEPT !.flagged = FALSE]),
              gv |-> [g EXCEPT !.num_flagged = @ - 1]]
        ELSE [minefield |-> SetCell(mf, g.hover_x, g.hover_y,
                              [hovered_cell EXCEPT !.flagged = TRUE]),
              gv |-> [g EXCEPT !.num_flagged = @ + 1]]

\* toggle_flag comparing the number with the count of the cells around that
\* are neither opened nor flagged.
toggle_flag_counts_unflagged(mf, g) ==
    IF g.state = WON \/ g.state = LOST THEN [minefield |-> mf, gv |-> g]
    ELSE
    LET hovered_cell == mf[g.hover_y][g.hover_x]
        near == Near(g.hover_x, g.hover_y, g.difficulty)
        temp_mound == Closed(mf, near)
        unopened == Len(temp_mound)
        cell_mound == IF unopened = hovered_cell.number
                      THEN temp_mound ELSE <<>>
    IN  IF ~hovered_cell.opened
        THEN IF hovered_cell.flagged
             THEN [minefield |-> SetCell(mf, g.hover_x, g.hover_y,
                                   [hovered_cell EXCEPT !.flagged = FALSE]),
                   gv |-> [g EXCEPT !.num_flagged = @ - 1]]
             ELSE [minefield |-> SetCell(mf, g.hover_x, g.hover_y,
                                   [hovered_cell EXCEPT !.flagged = TRUE]),
                   gv |-> [g EXCEPT !.num_flagged = @ + 1]]
        ELSE flag_cells(mf, g, cell_mound, 1)

\* toggle_flag opening the cell whose flag it removes.
toggle_flag_unflag_opens(mf, g) ==
    IF g.state = WON \/ g.state = LOST THEN [minefield |-> mf, gv |-> g]
    ELSE
    LET hovered_cell == mf[g.hover_y][g.hover_x]
        near == Near(g.hover_x, g.hover_y, g.difficulty)
        unopened == Len(Unopened(mf, near))
        temp_mound == Closed(mf, near)
        cell_mound == IF unopened = hovered_cell.number
                      THEN temp_mound ELSE <<>>
    IN  IF ~hovered_cell.opened
        THEN IF hovered_cell.flagged
             THEN [minefield |-> SetCell(mf, g.hover_x, g.hover_y,
                                   [hovered_cell EXCEPT !.flagged = FALSE,
                                                        !.opened = TRUE]),
                   gv |-> [g EXCEPT !.num_flagged = @ - 1]]
             ELSE [minefield |-> SetCell(mf, g.hover_x, g.hover_y,
                                   [hovered_cell EXCEPT !.flagged = TRUE]),
                   gv |-> [g EXCEPT !.num_flagged = @ + 1]]
        ELSE flag_cells(mf, g, cell_mound, 1)

\* GameView.toggle_flag.
toggle_flag(mf, g) ==
    IF g.state = WON \/ g.state = LOST THEN [minefield |-> mf, gv |-> g]
    ELSE
    LET hovered_cell == mf[g.hover_y][g.hover_x]
        near == Near(g.hover_x, g.hover_y, g.difficulty)
        unopened == Len(Unopened(mf, near))
        temp_mound == Closed(mf, near)
        cell_mound == IF unopened = hovered_cell.number
                      THEN temp_mound ELSE <<>>
    IN  IF ~hovered_cell.opened
        THEN IF hovered_cell.flagged
             THEN [minefield |-> SetCell(mf, g.hover_x, g.hover_y,
                                   [hovered_cell EXCEPT !.flagged = FALSE]),
                   gv |-> [g EXCEPT !.num_flagged = @ - 1]]
             ELSE [minefield |-> SetCell(mf, g.hover_x, g.hover_y,
                                   [hovered_cell EXCEPT !.flagged = TRUE]),
                   gv |-> [g EXCEPT !.num_flagged = @ + 1]]
        ELSE flag_cells(mf, g, cell_mound, 1)

\* open_loop going on with the rest of cell_mound after it opened a mine.
RECURSIVE open_loop_past_mine(_, _, _, _)
open_loop_past_mine(mf, diff, cell_mound, mound_position) ==
    IF ~(mound_position < Len(cell_mound))
    THEN [minefield |-> mf, lost |-> FALSE, cell_mound |-> cell_mound,
          mound_position |-> mound_position]
    ELSE
    LET point == cell_mound[mound_position + 1]
        cell == mf[point.y][point.x]
        opened == SetCell(mf, point.x, point.y, [cell EXCEPT !.opened = TRUE])
    IN  IF ~cell.opened
        THEN IF cell.mine
             THEN [open_loop_past_mine(opened, diff, cell_mound,
                                       mound_position + 1)
                       EXCEPT !.lost = TRUE,
                              !.mound_position = mound_position]
             ELSE IF cell.number = 0
             THEN open_loop_past_mine(opened, diff,
                            cell_mound
                                \o Closed(opened, Near(point.x, point.y, diff)),
                            mound_position + 1)
             ELSE open_loop_past_mine(opened, diff, cell_mound,
                                      mound_position + 1)
        ELSE open_loop_past_mine(mf, diff, cell_mound, mound_position + 1)

\* open_loop that never adds the cells around an opened cell to cell_mound.
RECURSIVE open_loop_no_neighbours(_, _, _, _)
open_loop_no_neighbours(mf, diff, cell_mound, mound_position) ==
    IF ~(mound_position < Len(cell_mound))
    THEN [minefield |-> mf, lost |-> FALSE, cell_mound |-> cell_mound,
          mound_position |-> mound_position]
    ELSE
    LET point == cell_mound[mound_position + 1]
        cell == mf[point.y][point.x]
        opened == SetCell(mf, point.x, point.y, [cell EXCEPT !.opened = TRUE])
    IN  IF ~cell.opened
        THEN IF cell.mine
             THEN [minefield |-> opened, lost |-> TRUE,
                   cell_mound |-> cell_mound,
                   mound_position |-> mound_position]
             ELSE open_loop_no_neighbours(opened, diff, cell_mound,
                                          mound_position + 1)
        ELSE open_loop_no_neighbours(mf, diff, cell_mound, mound_position + 1)

\* Lines 669-696: the loop over cell_mound from mound_position (0-based).
\* lost: the loop returned at line 681.
RECURSIVE open_loop(_, _, _, _)
open_loop(mf, diff, cell_mound, mound_position) ==
    IF ~(mound_position < Len(cell_mound))
    THEN [minefield |-> mf, lost |-> FALSE, cell_mound |-> cell_mound,
          mound_position |-> mound_position]
    ELSE
    LET point == cell_mound[mound_position + 1]
        cell == mf[point.y][point.x]
        opened == SetCell(mf, point.x, point.y, [cell EXCEPT !.opened = TRUE])
    IN  IF ~cell.opened
        THEN IF cell.mine
             THEN [minefield |-> opened, lost |-> TRUE,
                   cell_mound |-> cell_mound,
                   mound_position |-> mound_position]
             ELSE IF cell.number = 0
             THEN open_loop(opened, diff,
                            cell_mound
                                \o Closed(opened, Near(point.x, point.y, diff)),
                            mound_position + 1)
             ELSE open_loop(opened, diff, cell_mound, mound_position + 1)
        ELSE open_loop(mf, diff, cell_mound, mound_position + 1)

\* won_scan that also wants every mine flagged.
won_scan_flagged_mines(mf) ==
    \A y \in DOMAIN mf : \A x \in DOMAIN mf[y] :
        /\ ~(~mf[y][x].opened /\ ~mf[y][x].mine)
        /\ mf[y][x].mine => mf[y][x].flagged

\* won_scan looking for any unopened cell, mines included.
won_scan_any_unopened(mf) ==
    \A y \in DOMAIN mf : \A x \in DOMAIN mf[y] : mf[y][x].opened

\* Lines 698-706: the scan for an unopened cell that is no mine.
won_scan(mf) ==
    \A y \in DOMAIN mf : \A x \in DOMAIN mf[y] :
        ~(~mf[y][x].opened /\ ~mf[y][x].mine)

\* open_cell that opens around an opened cell whatever the count of flags.
open_cell_any_count(mf, g) ==
    LET idle == [minefield |-> mf, gv |-> g, delete |-> FALSE,
                 cell_mound |-> <<>>, mound_position |-> 0]
        hovered_cell == mf[g.hover_y][g.hover_x]
        near == Near(g.hover_x, g.hover_y, g.difficulty)
        temp_mound == Closed(mf, near)
        flagged_count == Len(Flagged(mf, near))
        quick == IF hovered_cell.opened
                 THEN temp_mound ELSE <<>>
        cell_mound == Append(quick, Point(g.hover_x, g.hover_y))
        r == open_loop(mf, g.difficulty, cell_mound, 0)
        won == won_scan(r.minefield)
    IN  IF g.state = WON \/ g.state = LOST THEN idle
        ELSE IF hovered_cell.flagged THEN idle
        ELSE IF r.lost
        THEN [minefield |-> r.minefield, gv |-> [g EXCEPT !.state = LOST],
              delete |-> TRUE, cell_mound |-> r.cell_mound,
              mound_position |-> r.mound_position]
        ELSE IF won
        THEN [minefield |-> r.minefield, gv |-> [g EXCEPT !.state = WON],
              delete |-> TRUE, cell_mound |-> r.cell_mound,
              mound_position |-> r.mound_position]
        ELSE [minefield |-> r.minefield, gv |-> g, delete |-> FALSE,
              cell_mound |-> r.cell_mound,
              mound_position |-> r.mound_position]

\* open_cell without the check for a flag on the cell under the cursor.
open_cell_through_flag(mf, g) ==
    LET idle == [minefield |-> mf, gv |-> g, delete |-> FALSE,
                 cell_mound |-> <<>>, mound_position |-> 0]
        hovered_cell == mf[g.hover_y][g.hover_x]
        near == Near(g.hover_x, g.hover_y, g.difficulty)
        temp_mound == Closed(mf, near)
        flagged_count == Len(Flagged(mf, near))
        quick == IF hovered_cell.opened /\ flagged_count = hovered_cell.number
                 THEN temp_mound ELSE <<>>
        cell_mound == Append(quick, Point(g.hover_x, g.hover_y))
        r == open_loop(mf, g.difficulty, cell_mound, 0)
        won == won_scan(r.minefield)
    IN  IF g.state = WON \/ g.state = LOST THEN idle
        ELSE IF r.lost
        THEN [minefield |-> r.minefield, gv |-> [g EXCEPT !.state = LOST],
              delete |-> TRUE, cell_mound |-> r.cell_mound,
              mound_position |-> r.mound_position]
        ELSE IF won
        THEN [minefield |-> r.minefield, gv |-> [g EXCEPT !.state = WON],
              delete |-> TRUE, cell_mound |-> r.cell_mound,
              mound_position |-> r.mound_position]
        ELSE [minefield |-> r.minefield, gv |-> g, delete |-> FALSE,
              cell_mound |-> r.cell_mound,
              mound_position |-> r.mound_position]

\* open_cell that leaves the save file in place when the game is lost.
open_cell_keeps_save(mf, g) ==
    LET idle == [minefield |-> mf, gv |-> g, delete |-> FALSE,
                 cell_mound |-> <<>>, mound_position |-> 0]
        hovered_cell == mf[g.hover_y][g.hover_x]
        near == Near(g.hover_x, g.hover_y, g.difficulty)
        temp_mound == Closed(mf, near)
        flagged_count == Len(Flagged(mf, near))
        quick == IF hovered_cell.opened /\ flagged_count = hovered_cell.number
                 THEN temp_mound ELSE <<>>
        cell_mound == Append(quick, Point(g.hover_x, g.hover_y))
        r == open_loop(mf, g.difficulty, cell_mound, 0)
        won == won_scan(r.minefield)
    IN  IF g.state = WON \/ g.state = LOST THEN idle
        ELSE IF hovered_cell.flagged THEN idle
        ELSE IF r.lost
        THEN [minefield |-> r.minefield, gv |-> [g EXCEPT !.state = LOST],
              delete |-> FALSE, cell_mound |-> r.cell_mound,
              mound_position |-> r.mound_position]
        ELSE IF won
        THEN [minefield |-> r.minefield, gv |-> [g EXCEPT !.state = WON],
              delete |-> TRUE, cell_mound |-> r.cell_mound,
              mound_position |-> r.mound_position]
        ELSE [minefield |-> r.minefield, gv |-> g, delete |-> FALSE,
              cell_mound |-> r.cell_mound,
              mound_position |-> r.mound_position]

\* open_cell whose chord takes every unopened cell around, flagged or not.
open_cell_chord_takes_flagged(mf, g) ==
    LET idle == [minefield |-> mf, gv |-> g, delete |-> FALSE,
                 cell_mound |-> <<>>, mound_position |-> 0]
        hovered_cell == mf[g.hover_y][g.hover_x]
        near == Near(g.hover_x, g.hover_y, g.difficulty)
        temp_mound == Unopened(mf, near)
        flagged_count == Len(Flagged(mf, near))
        quick == IF hovered_cell.opened /\ flagged_count = hovered_cell.number
                 THEN temp_mound ELSE <<>>
        cell_mound == Append(quick, Point(g.hover_x, g.hover_y))
        r == open_loop(mf, g.difficulty, cell_mound, 0)
        won == won_scan(r.minefield)
    IN  IF g.state = WON \/ g.state = LOST THEN idle
        ELSE IF hovered_cell.flagged THEN idle
        ELSE IF r.lost
        THEN [minefield |-> r.minefield, gv |-> [g EXCEPT !.state = LOST],
              delete |-> TRUE, cell_mound |-> r.cell_mound,
              mound_position |-> r.mound_position]
        ELSE IF won
        THEN [minefield |-> r.minefield, gv |-> [g EXCEPT !.state = WON],
              delete |-> TRUE, cell_mound |-> r.cell_mound,
              mound_position |-> r.mound_position]
        ELSE [minefield |-> r.minefield, gv |-> g, delete |-> FALSE,
              cell_mound |-> r.cell_mound,
              mound_position |-> r.mound_position]

\* GameView.open_cell.  delete: controller.delete_saved_game() was called.
open_cell(mf, g) ==
    LET idle == [minefield |-> mf, gv |-> g, delete |-> FALSE,
                 cell_mound |-> <<>>, mound_position |-> 0]
        hovered_cell == mf[g.hover_y][g.hover_x]
        near == Near(g.hover_x, g.hover_y, g.difficulty)
        temp_mound == Closed(mf, near)
        flagged_count == Len(Flagged(mf, near))
        quick == IF hovered_cell.opened /\ flagged_count = hovered_cell.number
                 THEN temp_mound ELSE <<>>
        cell_mound == Append(quick, Point(g.hover_x, g.hover_y))
        r == open_loop(mf, g.difficulty, cell_mound, 0)
        won == won_scan(r.minefield)
    IN  IF g.state = WON \/ g.state = LOST THEN idle
        ELSE IF hovered_cell.flagged THEN idle
        ELSE IF r.lost
        THEN [minefield |-> r.minefield, gv |-> [g EXCEPT !.state = LOST],
              delete |-> TRUE, cell_mound |-> r.cell_mound,
              mound_position |-> r.mound_position]
        ELSE IF won
        THEN [minefield |-> r.minefield, gv |-> [g EXCEPT !.state = WON],
              delete |-> TRUE, cell_mound |-> r.cell_mound,
              mound_position |-> r.mound_position]
        ELSE [minefield |-> r.minefield, gv |-> g, delete |-> FALSE,
              cell_mound |-> r.cell_mound,
              mound_position |-> r.mound_position]

\* Lines 643-666: the work list open_cell starts its loop with.
open_mound(mf, g) ==
    LET hovered_cell == mf[g.hover_y][g.hover_x]
        near == Near(g.hover_x, g.hover_y, g.difficulty)
        temp_mound == Closed(mf, near)
        flagged_count == Len(Flagged(mf, near))
        quick == IF hovered_cell.opened /\ flagged_count = hovered_cell.number
                 THEN temp_mound ELSE <<>>
    IN  Append(quick, Point(g.hover_x, g.hover_y))

\* open_step that does not move on from an entry whose cell is opened
\* already.
open_step_stays_on_skip(mf, diff, cell_mound, mound_position) ==
    LET point == cell_mound[mound_position + 1]
        cell == mf[point.y][point.x]
        opened == SetCell(mf, point.x, point.y, [cell EXCEPT !.opened = TRUE])
    IN  IF ~cell.opened
        THEN IF cell.mine
             THEN [minefield |-> opened, lost |-> TRUE,
                   cell_mound |-> cell_mound,
                   mound_position |-> mound_position]
             ELSE IF cell.number = 0
             THEN [minefield |-> opened, lost |-> FALSE,
                   cell_mound |-> cell_mound
                       \o Closed(opened, Near(point.x, point.y, diff)),
                   mound_position |-> mound_position + 1]
             ELSE [minefield |-> opened, lost |-> FALSE,
                   cell_mound |-> cell_mound,
                   mound_position |-> mound_position + 1]
        ELSE [minefield |-> mf, lost |-> FALSE, cell_mound |-> cell_mound,
              mound_position |-> mound_position]

\* open_step that puts the cells around an entry of number 0 on cell_mound
\* even when the entry's cell is opened already.
open_step_adds_on_skip(mf, diff, cell_mound, mound_position) ==
    LET point == cell_mound[mound_position + 1]
        cell == mf[point.y][point.x]
        opened == SetCell(mf, point.x, point.y, [cell EXCEPT !.opened = TRUE])
    IN  IF ~cell.opened /\ cell.mine
        THEN [minefield |-> opened, lost |-> TRUE,
              cell_mound |-> cell_mound,
              mound_position |-> mound_position]
        ELSE IF cell.number = 0
        THEN [minefield |-> opened, lost |-> FALSE,
              cell_mound |-> cell_mound
                  \o Closed(opened, Near(point.x, point.y, diff)),
              mound_position |-> mound_position + 1]
        ELSE [minefield |-> opened, lost |-> FALSE,
              cell_mound |-> cell_mound,
              mound_position |-> mound_position + 1]

\* Lines 670-696: one iteration of the while loop, for
\* mound_position < len(cell_mound).
open_step(mf, diff, cell_mound, mound_position) ==
    LET point == cell_mound[mound_position + 1]
        cell == mf[point.y][point.x]
        opened == SetCell(mf, point.x, point.y, [cell EXCEPT !.opened = TRUE])
    IN  IF ~cell.opened
        THEN IF cell.mine
             THEN [minefield |-> opened, lost |-> TRUE,
                   cell_mound |-> cell_mound,
                   mound_position |-> mound_position]
             ELSE IF cell.number = 0
             THEN [minefield |-> opened, lost |-> FALSE,
                   cell_mound |-> cell_mound
                       \o Closed(opened, Near(point.x, point.y, diff)),
                   mound_position |-> mound_position + 1]
             ELSE [minefield |-> opened, lost |-> FALSE,
                   cell_mound |-> cell_mound,
                   mound_position |-> mound_position + 1]
        ELSE [minefield |-> mf, lost |-> FALSE, cell_mound |-> cell_mound,
              mound_position |-> mound_position + 1]

----------------------------------------------------------------------------
(* The state machine *)

\* The worker thread when none runs.
Idle == [NoLocals EXCEPT !.mines = 0] @@ [pc |-> "idle"]

\* No handler of the current GameView has run yet.
NoCall ==
    [op |-> "none", state |-> "NONE", cell |-> Cell(FALSE, FALSE, FALSE, 0),
     cell_mound |-> <<>>, mound_position |-> 0]

\* What toggle_flag and open_cell leave in call: the name, the state and the
\* hovered cell the call started from, and the work list it ended with.
Called(op, cell_mound, mound_position) ==
    [op |-> op, state |-> gv.state,
     cell |-> minefield[gv.hover_y][gv.hover_x],
     cell_mound |-> cell_mound, mound_position |-> mound_position]

\* The Options of at most max_l by max_h with at most max_cells cells.
Options(max_l, max_h, max_cells, densities) ==
    {o \in [l : 1..max_l, h : 1..max_h, d : densities] :
        o.l * o.h <= max_cells}

\* Assign the Model fields of a record to the variables.
Store(self) ==
    /\ difficulty' = self.difficulty
    /\ minefield' = self.minefield
    /\ hover_x' = self.hover_x
    /\ hover_y' = self.hover_y
    /\ num_mines' = self.num_mines
    /\ num_flagged' = self.num_flagged
    /\ gen_progress' = self.gen_progress

Init ==
    /\ view = "menu"
    /\ difficulty = NoOption
    /\ minefield = <<>>
    /\ hover_x = 0
    /\ hover_y = 0
    /\ num_mines = 0
    /\ num_flagged = 0
    /\ gen_progress = 0
    /\ save_file = NoFile
    /\ worker = Idle
    /\ gv = NoGameView
    /\ call = NoCall

\* NewGameView: a difficulty button is clicked (set_difficulty); the
\* generating view starts the Generator thread, which runs lines 350-362.
NewGame(options) ==
    /\ view = "menu"
    /\ \E option \in options :
        LET self == gen_start([Self EXCEPT !.difficulty = option])
        IN  /\ Store(self)
            /\ worker' = Locals(self, "gen_loop")
    /\ view' = "generating"
    /\ UNCHANGED <<save_file, gv, call>>

GenPick ==
    /\ worker.pc = "gen_loop"
    /\ worker.mines_left > 0
    /\ \E x_pos \in 0..(worker.length - 1), y_pos \in 0..(worker.height - 1) :
        LET self == gen_pick(Self, x_pos, y_pos)
        IN  /\ Store(self)
            /\ worker' = Locals(self, "gen_loop")
    /\ UNCHANGED <<view, save_file, gv, call>>

\* generate_minefield returning without the call of save_minefield.
GenSave_without_save ==
    /\ worker.pc = "gen_loop"
    /\ ~(worker.mines_left > 0)
    /\ worker' = [Idle EXCEPT !.pc = "gen_done"]
    /\ UNCHANGED <<view, difficulty, minefield, hover_x, hover_y, num_mines,
                   num_flagged, gen_progress, save_file, gv, call>>

\* Line 382, and the end of the thread.
GenSave ==
    /\ worker.pc = "gen_loop"
    /\ ~(worker.mines_left > 0)
    /\ save_file' = File(save_minefield(difficulty, minefield, hover_x,
                                        hover_y))
    /\ worker' = [Idle EXCEPT !.pc = "gen_done"]
    /\ UNCHANGED <<view, difficulty, minefield, hover_x, hover_y, num_mines,
                   num_flagged, gen_progress, gv, call>>

\* GenJoin without generator.join(): the view goes on as soon as the
\* Feedback thread has read 100.
GenJoin_feedback_only ==
    /\ view = "generating"
    /\ worker.pc \in {"gen_loop", "gen_done"}
    /\ gen_progress >= 100
    /\ gen_progress' = 0
    /\ view' = "game"
    /\ gv' = GameView([Self EXCEPT !.gen_progress = 0])
    /\ call' = NoCall
    /\ worker' = IF worker.pc = "gen_done" THEN Idle ELSE worker
    /\ UNCHANGED <<difficulty, minefield, hover_x, hover_y, num_mines,
                   num_flagged, save_file>>

\* GeneratingView.loop, lines 72-78: the Generator thread is joined, then
\* the Feedback thread, which leaves its loop once it reads a progress of
\* 100; the progress is reset and the game view is entered.
GenJoin ==
    /\ view = "generating"
    /\ worker.pc = "gen_done"
    /\ gen_progress >= 100
    /\ gen_progress' = 0
    /\ view' = "game"
    /\ gv' = GameView([Self EXCEPT !.gen_progress = 0])
    /\ call' = NoCall
    /\ worker' = Idle
    /\ UNCHANGED <<difficulty, minefield, hover_x, hover_y, num_mines,
                   num_flagged, save_file>>

\* MainMenuView: the Continue button, active only with a save file; the
\* continue game view starts the Loader thread.
ContinueGame ==
    /\ view = "menu"
    /\ save_file.exists
    /\ view' = "loading"
    /\ worker' = [Idle EXCEPT !.pc = "load_start"]
    /\ UNCHANGED <<difficulty, minefield, hover_x, hover_y, num_mines,
                   num_flagged, gen_progress, save_file, gv, call>>

\* load_minefield up to the loop, or its return at line 236.
LoadStart ==
    /\ worker.pc = "load_start"
    /\ IF ~save_file.exists
       THEN /\ worker' = [Idle EXCEPT !.pc = "load_done"]
            /\ UNCHANGED <<difficulty, minefield, hover_x, hover_y,
                           num_mines, num_flagged, gen_progress>>
       ELSE LET self == load_start(Self, save_file.bytes)
            IN  /\ Store(self)
                /\ worker' = Locals(self, "load_loop")
    /\ UNCHANGED <<view, save_file, gv, call>>

LoadCell ==
    /\ worker.pc = "load_loop"
    /\ worker.current < worker.length * worker.height
    /\ LET self == load_cell(Self, save_file.bytes)
       IN  /\ Store(self)
           /\ worker' = Locals(self, "load_loop")
    /\ UNCHANGED <<view, save_file, gv, call>>

LoadFinish ==
    /\ worker.pc = "load_loop"
    /\ ~(worker.current < worker.length * worker.height)
    /\ Store(load_finish(Self))
    /\ worker' = [Idle EXCEPT !.pc = "load_done"]
    /\ UNCHANGED <<view, save_file, gv, call>>

\* ContinueGameView.loop, lines 72-78: the Loader thread is joined, then the
\* Feedback thread.
LoadJoin ==
    /\ view = "loading"
    /\ worker.pc = "load_done"
    /\ gen_progress >= 100
    /\ gen_progress' = 0
    /\ view' = "game"
    /\ gv' = GameView([Self EXCEPT !.gen_progress = 0])
    /\ call' = NoCall
    /\ worker' = Idle
    /\ UNCHANGED <<difficulty, minefield, hover_x, hover_y, num_mines,
                   num_flagged, save_file>>

\* Keys w a s d and W A S D.
Move ==
    /\ view = "game"
    /\ \E direction \in {"U", "L", "D", "R"}, amount \in {1, 10} :
        /\ gv' = move(gv, direction, amount)
        /\ hover_x' = gv'.hover_x
        /\ hover_y' = gv'.hover_y
    /\ call' = [NoCall EXCEPT !.op = "move"]
    /\ UNCHANGED <<view, difficulty, minefield, num_mines, num_flagged,
                   gen_progress, save_file, worker>>

\* Key n.
ToggleFlag ==
    /\ view = "game"
    /\ LET r == toggle_flag(minefield, gv)
       IN  /\ minefield' = r.minefield
           /\ gv' = r.gv
    /\ call' = Called("toggle_flag", <<>>, 0)
    /\ UNCHANGED <<view, difficulty, hover_x, hover_y, num_mines,
                   num_flagged, gen_progress, save_file, worker>>

\* Key m.
OpenCell ==
    /\ view = "game"
    /\ LET r == open_cell(minefield, gv)
       IN  /\ minefield' = r.minefield
           /\ gv' = r.gv
           /\ save_file' = IF r.delete THEN NoFile ELSE save_file
           /\ call' = Called("open_cell", r.cell_mound, r.mound_position)
    /\ UNCHANGED <<view, difficulty, hover_x, hover_y, num_mines,
                   num_flagged, gen_progress, worker>>

\* Quit that saves the field whatever the state of the game.
Quit_saves_any_state ==
    /\ view = "game"
    /\ save_file' = File(save_minefield(difficulty, minefield, hover_x,
                                        hover_y))
    /\ view' = "menu"
    /\ gv' = NoGameView
    /\ call' = NoCall
    /\ UNCHANGED <<difficulty, minefield, hover_x, hover_y, num_mines,
                   num_flagged, gen_progress, worker>>

\* Key q, lines 156-173: hide the goto window if it is shown; otherwise save
\* while RUNNING and go back to the main menu.
Quit ==
    /\ view = "game"
    /\ IF gv.show_goto
       THEN /\ gv' = hide_goto_graphics(gv)
            /\ call' = NoCall
            /\ UNCHANGED <<view, save_file>>
       ELSE /\ save_file' = IF gv.state = RUNNING
                            THEN File(save_minefield(difficulty, minefield,
                                                     hover_x, hover_y))
                            ELSE save_file
            /\ view' = "menu"
            /\ gv' = NoGameView
            /\ call' = NoCall
    /\ UNCHANGED <<difficulty, minefield, hover_x, hover_y, num_mines,
                   num_flagged, gen_progress, worker>>

\* Key g.
ToggleGoto ==
    /\ view = "game"
    /\ gv' = toggle_goto_graphics(gv)
    /\ hover_x' = gv'.hover_x
    /\ hover_y' = gv'.hover_y
    /\ call' = [NoCall EXCEPT !.op = "toggle_goto_graphics"]
    /\ UNCHANGED <<view, difficulty, minefield, num_mines, num_flagged,
                   gen_progress, save_file, worker>>

\* View.parse, lines 45-50: a digit or backspace key goes to the focused
\* NumberField; the game view has no control of its own for these keys.
GotoKey ==
    /\ view = "game"
    /\ gv.focused_ui # "None"
    /\ \E key \in 0..10 :
        LET field == IF gv.focused_ui = "pos_x" THEN gv.pos_x ELSE gv.pos_y
            typed == IF key = 10 THEN backspace(field)
                     ELSE add_digit(field, key)
        IN  /\ gv' = IF gv.focused_ui = "pos_x"
                     THEN [gv EXCEPT !.pos_x = typed]
                     ELSE [gv EXCEPT !.pos_y = typed]
            /\ call' = NoCall
    /\ UNCHANGED <<view, difficulty, minefield, hover_x, hover_y, num_mines,
                   num_flagged, gen_progress, save_file, worker>>

\* Key G.  Of the 50 random tries one can hit any cell that is neither
\* opened nor flagged; all of them can miss when some cell is opened or
\* flagged, and then the list of lines 570-582 gives such a cell, if any.
GotoRandomCell ==
    /\ view = "game"
    /\ LET l == gv.difficulty.l
           h == gv.difficulty.h
           free == {p \in (0..(l - 1)) \X (0..(h - 1)) :
                       /\ ~minefield[p[2]][p[1]].opened
                       /\ ~minefield[p[2]][p[1]].flagged}
           all_free == Cardinality(free) = l * h
       IN  \/ \E p \in free, by_try \in BOOLEAN :
                /\ by_try \/ ~all_free
                /\ gv' = goto_random_cell(gv, p[1], p[2], by_try)
           \/ /\ free = {}
              /\ gv' = gv
    /\ hover_x' = gv'.hover_x
    /\ hover_y' = gv'.hover_y
    /\ call' = NoCall
    /\ UNCHANGED <<view, difficulty, minefield, num_mines, num_flagged,
                   gen_progress, save_file, worker>>

\* Keys i j k l and I J K L, line 265: the camera is not part of the model,
\* the goto window is hidden.
MoveCamera ==
    /\ view = "game"
    /\ gv' = hide_goto_graphics(gv)
    /\ call' = NoCall
    /\ UNCHANGED <<view, difficulty, minefield, hover_x, hover_y, num_mines,
                   num_flagged, gen_progress, save_file, worker>>

\* The first game of a run: no field has been generated or loaded yet.
FirstGame(options) ==
    /\ minefield = <<>>
    /\ NewGame(options)

\* The whole program on small fields.
Next ==
    \/ NewGame(Options(MaxLength, MaxHeight, MaxCells, Densities))
    \/ GenPick
    \/ GenSave
    \/ GenJoin
    \/ ContinueGame
    \/ LoadStart
    \/ LoadCell
    \/ LoadFinish
    \/ LoadJoin
    \/ Move
    \/ ToggleFlag
    \/ OpenCell
    \/ Quit

Spec == Init /\ [][Next]_vars

\* One game from its generation to its end or to quit, on larger fields.
NextGame ==
    \/ FirstGame(Options(GameMaxLength, GameMaxHeight, GameMaxCells,
                         Densities))
    \/ GenPick
    \/ GenSave
    \/ GenJoin
    \/ Move
    \/ ToggleFlag
    \/ OpenCell
    \/ Quit

SpecGame == Init /\ [][NextGame]_vars

\* Key n, pressed by a player who sets a flag only while fewer than
\* max_flags are set.
FewFlags(max_flags) ==
    /\ view = "game"
    /\ \/ gv.num_flagged < max_flags
       \/ minefield[gv.hover_y][gv.hover_x].flagged
    /\ ToggleFlag

\* One game on a field of up to two blocks of cells, with one mine or with
\* one safe cell, and few flags.
NextDense ==
    \/ FirstGame(Options(DenseMaxLength, DenseMaxHeight, DenseMaxCells,
                         {0, 100}))
    \/ GenPick
    \/ GenSave
    \/ GenJoin
    \/ Move
    \/ FewFlags(DenseMaxFlags)
    \/ OpenCell
    \/ Quit

SpecDense == Init /\ [][NextDense]_vars

\* Generation, save and load of fields that are not played.
NextGen ==
    \/ FirstGame(Options(GenMaxLength, GenMaxHeight, GenMaxCells, Densities))
    \/ GenPick
    \/ GenSave
    \/ GenJoin
    \/ Move
    \/ Quit
    \/ ContinueGame
    \/ LoadStart
    \/ LoadCell
    \/ LoadFinish
    \/ LoadJoin

SpecGen == Init /\ [][NextGen]_vars

\* controller.load_minefield is called from the main menu, by a caller that
\* has not asked has_saved_game first.
LoadCalled ==
    /\ view = "menu"
    /\ worker.pc = "idle"
    /\ view' = "loading"
    /\ worker' = [Idle EXCEPT !.pc = "load_start"]
    /\ UNCHANGED <<difficulty, minefield, hover_x, hover_y, num_mines,
                   num_flagged, gen_progress, save_file, gv, call>>

\* Generation and quit of a field, and load_minefield called with and
\* without a save file, up to its return.
NextLoad ==
    \/ FirstGame(Options(GenMaxLength, GenMaxHeight, GenMaxCells, Densities))
    \/ GenPick
    \/ GenSave
    \/ GenJoin
    \/ Quit
    \/ LoadCalled
    \/ LoadStart
    \/ LoadCell
    \/ LoadFinish

SpecLoad == Init /\ [][NextLoad]_vars

\* The program was stopped inside save_minefield, which writes the header
\* and then one block at a time (lines 202-229): the file holds the bytes
\* written up to then.
SaveCutShort ==
    /\ view = "menu"
    /\ worker.pc = "idle"
    /\ save_file.exists
    /\ \E n \in 0..(Len(save_file.bytes) - 1) :
           save_file' = File(SubSeq(save_file.bytes, 1, n))
    /\ UNCHANGED <<view, difficulty, minefield, hover_x, hover_y, num_mines,
                   num_flagged, gen_progress, worker, gv, call>>

\* Generation and quit of a field, and the load of a save file that may
\* have been cut short.
NextShort ==
    \/ FirstGame(Options(GenMaxLength, GenMaxHeight, GenMaxCells, Densities))
    \/ GenPick
    \/ GenSave
    \/ GenJoin
    \/ Quit
    \/ SaveCutShort
    \/ ContinueGame
    \/ LoadStart
    \/ LoadCell
    \/ LoadFinish

SpecShort == Init /\ [][NextShort]_vars

\* GenPick in the run where random.randint returns, every time, the first
\* cell in row order that holds no mine.
GenPickNext ==
    /\ worker.pc = "gen_loop"
    /\ worker.mines_left > 0
    /\ LET length == worker.length
           free == {i \in 0..(length * worker.height - 1) :
                       ~minefield[i \div length][i % length].mine}
           next == CHOOSE i \in free : \A j \in free : i <= j
           self == gen_pick(Self, next % length, next \div length)
       IN  /\ Store(self)
           /\ worker' = Locals(self, "gen_loop")
    /\ UNCHANGED <<view, save_file, gv, call>>

\* One game with its goto window.
NextGoto ==
    \/ FirstGame(Options(GotoMaxLength, GotoMaxHeight, GotoMaxCells,
                         Densities))
    \/ GenPick
    \/ GenSave
    \/ GenJoin
    \/ Move
    \/ ToggleFlag
    \/ OpenCell
    \/ ToggleGoto
    \/ GotoKey
    \/ GotoRandomCell
    \/ MoveCamera
    \/ Quit

SpecGoto == Init /\ [][NextGoto]_vars

\* Generation, save and load of fields of up to 4 by 3 cells.
NextBlock ==
    \/ FirstGame(Options(BlockMaxLength, BlockMaxHeight, BlockMaxCells,
                         Densities))
    \/ GenPick
    \/ GenSave
    \/ GenJoin
    \/ Quit
    \/ ContinueGame
    \/ LoadStart
    \/ LoadCell
    \/ LoadFinish
    \/ LoadJoin

SpecBlock == Init /\ [][NextBlock]_vars

\* Generation of one large field.
NextLarge ==
    \/ FirstGame({Option(LargeLength, LargeHeight, d) : d \in Densities})
    \/ GenPickNext
    \/ GenSave
    \/ GenJoin

SpecLarge == Init /\ [][NextLarge]_vars

\* One run of generate_minefield.
NextPlace ==
    \/ FirstGame(Options(GenMaxLength, GenMaxHeight, GenMaxCells, Densities))
    \/ GenPick
    \/ GenSave

\* random.randint, lines 366-367: while a cell without a mine exists, one is
\* picked in the end.
PlaceFairness == WF_vars(GenPick)

SpecPlace == Init /\ [][NextPlace]_vars /\ PlaceFairness

\* open_cell is inside its while loop.
InOpenLoop == call.op = "open_loop"

\* Key m, lines 636-666: open_cell up to its while loop, or its return
\* before it.
OpenBegin ==
    /\ view = "game"
    /\ ~InOpenLoop
    /\ call' = IF gv.state = WON \/ gv.state = LOST
                  \/ minefield[gv.hover_y][gv.hover_x].flagged
               THEN Called("open_cell", <<>>, 0)
               ELSE Called("open_loop", open_mound(minefield, gv), 0)
    /\ UNCHANGED <<view, difficulty, minefield, hover_x, hover_y, num_mines,
                   num_flagged, gen_progress, save_file, worker, gv>>

\* Lines 669-696: one iteration of the while loop; on a mine, the return at
\* line 681.
OpenStep ==
    /\ InOpenLoop
    /\ call.mound_position < Len(call.cell_mound)
    /\ LET r == open_step(minefield, gv.difficulty, call.cell_mound,
                          call.mound_position)
       IN  /\ minefield' = r.minefield
           /\ gv' = IF r.lost THEN [gv EXCEPT !.state = LOST] ELSE gv
           /\ save_file' = IF r.lost THEN NoFile ELSE save_file
           /\ call' = [call EXCEPT
                           !.op = IF r.lost THEN "open_cell" ELSE @,
                           !.cell_mound = r.cell_mound,
                           !.mound_position = r.mound_position]
    /\ UNCHANGED <<view, difficulty, hover_x, hover_y, num_mines,
                   num_flagged, gen_progress, worker>>

\* Lines 698-711: the loop is over; the scan for the win.
OpenEnd ==
    /\ InOpenLoop
    /\ ~(call.mound_position < Len(call.cell_mound))
    /\ gv' = IF won_scan(minefield) THEN [gv EXCEPT !.state = WON] ELSE gv
    /\ save_file' = IF won_scan(minefield) THEN NoFile ELSE save_file
    /\ call' = [call EXCEPT !.op = "open_cell"]
    /\ UNCHANGED <<view, difficulty, minefield, hover_x, hover_y, num_mines,
                   num_flagged, gen_progress, worker>>

\* One game in which open_cell runs one loop iteration at a time; the
\* thread that reads the keys is the one that runs the loop, so no other
\* key is handled before the loop is over.
NextOpen ==
    \/ FirstGame(Options(OpenMaxLength, OpenMaxHeight, OpenMaxCells,
                         Densities))
    \/ GenPick
    \/ GenSave
    \/ GenJoin
    \/ ~InOpenLoop /\ Move
    \/ ~InOpenLoop /\ FewFlags(OpenMaxFlags)
    \/ OpenBegin
    \/ OpenStep
    \/ OpenEnd
    \/ ~InOpenLoop /\ Quit

\* The loop of open_cell goes on until it returns.
OpenFairness == WF_vars(OpenStep) /\ WF_vars(OpenEnd)

SpecOpen == Init /\ [][NextOpen]_vars /\ OpenFairness

\* The mine count of every Option, as the generator computes it on entry.
NextCalc == NewGame(Options(MaxCalcDim, MaxCalcDim, MaxCalcDim * MaxCalcDim,
                            0..100))

SpecCalc == Init /\ [][NextCalc]_vars

\* The values of a 10-bit header field that are tried, up to hi: those next
\* to 0, those next to hi, and the two alternating bit patterns.
HeaderValues(hi) ==
    {v \in (0..HeaderSpread) \cup ((hi - HeaderSpread)..hi) \cup {341, 682} :
        v >= 0 /\ v <= hi}

\* A Model whose field has any of the tried sizes up to custom_maximums and
\* whose cursor is on any of the tried cells; the cells are left out.
InitHeader ==
    /\ view = "game"
    /\ difficulty \in {Option(a + 1, b + 1, 0) :
                           a \in HeaderValues(MaxDimension - 1),
                           b \in HeaderValues(MaxDimension - 1)}
    /\ hover_x \in HeaderValues(difficulty.l - 1)
    /\ hover_y \in HeaderValues(difficulty.h - 1)
    /\ minefield = <<>>
    /\ num_mines = 0
    /\ num_flagged = 0
    /\ gen_progress = 0
    /\ save_file = NoFile
    /\ worker = Idle
    /\ gv = NoGameView
    /\ call = NoCall

\* save_minefield up to line 204: the header is written.
WriteHeader ==
    /\ view = "game"
    /\ save_file' = File(save_header(difficulty.l, difficulty.h, hover_x,
                                     hover_y))
    /\ view' = "menu"
    /\ UNCHANGED <<difficulty, minefield, hover_x, hover_y, num_mines,
                   num_flagged, gen_progress, worker, gv, call>>

\* load_minefield up to line 251: the header is read.
ReadHeader ==
    /\ view = "menu"
    /\ save_file.exists
    /\ LET header == load_header(save_file.bytes)
       IN  /\ hover_x' = header.hover_x
           /\ hover_y' = header.hover_y
           /\ worker' = [Idle EXCEPT !.pc = "load_loop",
                                     !.length = header.length,
                                     !.height = header.height]
    /\ view' = "loading"
    /\ UNCHANGED <<difficulty, minefield, num_mines, num_flagged,
                   gen_progress, save_file, gv, call>>

NextHeader ==
    \/ WriteHeader
    \/ ReadHeader

\* The header of the save file alone, for fields of every tried size.
SpecHeader == InitHeader /\ [][NextHeader]_vars

----------------------------------------------------------------------------
(* Properties *)

\* The generator has taken its parameters: num_mines holds
\* calculate_mines(difficulty).
MinesCalculated == view = "generating"

\* The number of cells of the difficulty.
Area == difficulty.l * difficulty.h

C2_MineCountFormula ==
    MinesCalculated =>
        /\ \E raw \in 0..Area :
            /\ 100 * raw <= Area * difficulty.d
            /\ Area * difficulty.d < 100 * (raw + 1)
            /\ LET lower == IF raw >= 1 THEN raw ELSE 1
               IN  num_mines = IF lower <= Area - 1 THEN lower ELSE Area - 1
        /\ difficulty = Option(3, 1, 100) => num_mines = 2

\* Option(3, 1, 100): the raw count 3 is clamped to 2.
C2_Witness ==
    /\ MinesCalculated
    /\ difficulty = Option(3, 1, 100)
    /\ num_mines = 2

\* The positions <<x, y>> of the grid the difficulty describes.
Grid == (0..(difficulty.l - 1)) \X (0..(difficulty.h - 1))

\* The cell of the current field at position p = <<x, y>>.
At(p) == minefield[p[2]][p[1]]

Mines == {p \in Grid : At(p).mine}

\* The positions around p, clipped at the edges, p itself excluded.
Neighbours(p) ==
    {q \in Grid : /\ q # p
                  /\ q[1] - p[1] \in {-1, 0, 1}
                  /\ q[2] - p[2] \in {-1, 0, 1}}

\* generate_minefield has returned and its thread is not joined yet.
Generated == worker.pc = "gen_done"

\* load_minefield has returned and its thread is not joined yet.
Loaded == worker.pc = "load_done"

\* C3: when generate_minefield finishes, the grid has height rows of length
\* cells, exactly calculate_mines(difficulty) of them are mines and
\* num_mines is that count, every cell is unopened and unflagged,
\* num_flagged = 0 and the cursor is at (0, 0), whatever cells were picked.
C3_GeneratedField ==
    Generated =>
        /\ DOMAIN minefield = 0..(difficulty.h - 1)
        /\ \A y \in DOMAIN minefield :
               DOMAIN minefield[y] = 0..(difficulty.l - 1)
        /\ Cardinality(Mines) = calculate_mines(difficulty)
        /\ num_mines = Cardinality(Mines)
        /\ \A p \in Grid : ~At(p).opened /\ ~At(p).flagged
        /\ num_flagged = 0
        /\ hover_x = 0
        /\ hover_y = 0

\* A generated 3x3 field with 4 mines.
C3_Witness ==
    /\ Generated
    /\ difficulty = Option(3, 3, 50)
    /\ Cardinality(Mines) = 4

\* The field is complete: generated or loaded, or in play.
FieldReady == Generated \/ Loaded \/ view = "game"

FlaggedCells == {p \in Grid : At(p).flagged}

OpenedCells == {p \in Grid : At(p).opened}

\* The Model after save_minefield followed by load_minefield.
Reloaded ==
    load_minefield(Self, File(save_minefield(difficulty, minefield, hover_x,
                                             hover_y)))

\* C5: for every field in play, whatever moves, open_cell and toggle_flag
\* calls led to it, save_minefield followed by load_minefield gives the same
\* length and height, the same cursor, the same opened, mine and flagged bits
\* and the same number in every cell, and num_mines and num_flagged equal to
\* the counts of mines and of flagged cells.
C5_SaveLoadRoundTrip ==
    view = "game" =>
        LET self == Reloaded
        IN  /\ self.difficulty.l = difficulty.l
            /\ self.difficulty.h = difficulty.h
            /\ self.hover_x = hover_x
            /\ self.hover_y = hover_y
            /\ DOMAIN self.minefield = DOMAIN minefield
            /\ \A y \in DOMAIN minefield :
                   DOMAIN self.minefield[y] = DOMAIN minefield[y]
            /\ \A p \in Grid :
                   LET cell == self.minefield[p[2]][p[1]]
                   IN  /\ cell.opened = At(p).opened
                       /\ cell.mine = At(p).mine
                       /\ cell.flagged = At(p).flagged
                       /\ cell.number = At(p).number
            /\ self.num_mines = Cardinality(Mines)
            /\ self.num_flagged = Cardinality(FlaggedCells)

\* A 3x2 field in play with the cursor moved to the far corner, an opened
\* cell, a flagged cell and a mine, and its reload with the same counts.
C5_Witness ==
    /\ view = "game"
    /\ difficulty.l = 3
    /\ difficulty.h = 2
    /\ hover_x = 2
    /\ hover_y = 1
    /\ OpenedCells # {}
    /\ FlaggedCells # {}
    /\ Reloaded.num_flagged >= 1
    /\ Reloaded.num_mines >= 2
    /\ \E p \in Grid : Reloaded.minefield[p[2]][p[1]].opened

\* The five bytes, most significant first, of the 40-bit value whose four
\* 10-bit fields are a, b, c and d, a in the top bits.
HeaderBytes(a, b, c, d) ==
    <<a \div 4,
      (a % 4) * 64 + b \div 16,
      (b % 16) * 16 + c \div 64,
      (c % 64) * 4 + d \div 256,
      d % 256>>

\* The save file was written from the current Model.
HeaderWritten == save_file.exists /\ (view = "menu" \/ Generated)

\* The header of the save file was read into the Model.
HeaderRead == save_file.exists /\ worker.pc = "load_loop"

\* C6: the save file starts with the 5 bytes of the 40-bit big-endian value
\* whose 10-bit fields are length-1, height-1, hover_x and hover_y, the
\* first in the top bits; for length = height = 2 and the cursor at (0, 0)
\* that value is 2^30 + 2^20; and load_minefield decodes the four fields
\* back to the same length, height, hover_x and hover_y.
C6_HeaderLayout ==
    /\ HeaderWritten =>
           LET header == load_header(save_file.bytes)
           IN  /\ Len(save_file.bytes) >= 5
               /\ SubSeq(save_file.bytes, 1, 5)
                      = HeaderBytes(difficulty.l - 1, difficulty.h - 1,
                                    hover_x, hover_y)
               /\ (/\ difficulty.l = 2
                   /\ difficulty.h = 2
                   /\ hover_x = 0
                   /\ hover_y = 0)
                      => SubSeq(save_file.bytes, 1, 5) = <<0, 64, 16, 0, 0>>
               /\ header.length = difficulty.l
               /\ header.height = difficulty.h
               /\ header.hover_x = hover_x
               /\ header.hover_y = hover_y
    /\ HeaderRead =>
           /\ worker.length = difficulty.l
           /\ worker.height = difficulty.h
           /\ SubSeq(save_file.bytes, 1, 5)
                  = HeaderBytes(worker.length - 1, worker.height - 1,
                                hover_x, hover_y)

\* The header of a 1024 x 683 field with the cursor at (341, 681), read back.
C6_Witness ==
    /\ HeaderRead
    /\ worker.length = 1024
    /\ worker.height = 683
    /\ hover_x = 341
    /\ hover_y = 681
    /\ SubSeq(save_file.bytes, 1, 5) = <<255, 234, 165, 86, 169>>

\* The number of 3-byte blocks that hold one record for each cell.
Blocks == (Area + 7) \div 8

\* The 24-bit value of block b (from 0) of the save file.
Block(b) ==
    save_file.bytes[5 + 3 * b + 1] * 65536
        + save_file.bytes[5 + 3 * b + 2] * 256
        + save_file.bytes[5 + 3 * b + 3]

\* The 3 bits at record position r of block b, position 0 in the top bits.
Record(b, r) == (Block(b) \div (8 ^ (7 - r))) % 8

\* The cell with index i = y * length + x.
CellAt(i) == minefield[i \div difficulty.l][i % difficulty.l]

\* C7: the body of the save file is exactly ceil(length*height/8) blocks of
\* 3 bytes; the record at position i mod 8 of block i div 8 is
\* (opened<<2)|(mine<<1)|flagged of cell i = y*length + x, position 0 in the
\* top 3 bits; and every position past the last cell is zero.
C7_BodyLayout ==
    HeaderWritten =>
        /\ Len(save_file.bytes) = 5 + 3 * Blocks
        /\ \A b \in 0..(Blocks - 1) : \A r \in 0..7 :
               LET i == 8 * b + r
               IN  Record(b, r) =
                       IF i < Area
                       THEN 4 * BoolInt(CellAt(i).opened)
                            + 2 * BoolInt(CellAt(i).mine)
                            + BoolInt(CellAt(i).flagged)
                       ELSE 0

\* The file of a quit 3x3 game with an opened cell in the first block and
\* the ninth cell, a flagged mine, alone in the second block.
C7_Witness ==
    /\ HeaderWritten
    /\ view = "menu"
    /\ Area = 9
    /\ Len(save_file.bytes) = 11
    /\ \E i \in 0..7 : CellAt(i).opened /\ Record(0, i) = 4
    /\ CellAt(8).mine
    /\ CellAt(8).flagged
    /\ Record(1, 0) = 3

\* The game is over.
Over == gv.state = WON \/ gv.state = LOST

\* The cell under the cursor of the game view.
Hovered == minefield[gv.hover_y][gv.hover_x]

\* C8: once the game is WON or LOST, no step of the game view changes the
\* state again, and an open_cell or toggle_flag call changes no cell and no
\* counter.
C8_TerminalStatesAreFinal ==
    [][(Over /\ view' = "game") =>
           /\ gv'.state = gv.state
           /\ minefield' = minefield
           /\ gv'.num_flagged = gv.num_flagged
           /\ gv'.num_mines = gv.num_mines
           /\ num_flagged' = num_flagged
           /\ num_mines' = num_mines]_vars

\* toggle_flag was called in a lost game on a cell that is neither opened
\* nor flagged, and the cell is still not flagged.
C8_Witness ==
    /\ view = "game"
    /\ call.op = "toggle_flag"
    /\ call.state = LOST
    /\ ~call.cell.opened
    /\ ~call.cell.flagged
    /\ gv.state = LOST
    /\ ~Hovered.flagged

\* The points open_cell starts its work list with when the cell under the
\* cursor is opened and as many cells around it are flagged as its number.
Chord == Closed(minefield, Near(gv.hover_x, gv.hover_y, gv.difficulty))

\* The points of the first n entries of seq.
Prefix(seq, n) == {seq[k] : k \in 1..n}

OpenedMines(mf) ==
    {p \in Grid : mf[p[2]][p[1]].mine /\ mf[p[2]][p[1]].opened}

\* C9: in a RUNNING game, open_cell on an unopened, unflagged mine opens
\* that cell alone and the game is LOST; and when open_cell on an opened
\* cell reaches a mine, the cells of the work list before the mine and the
\* mine are opened, every other cell is left as it was, and no second mine
\* is opened.
C9_MineEndsOpenCell ==
    [][(OpenCell /\ gv.state = RUNNING) =>
           /\ (~Hovered.opened /\ ~Hovered.flagged /\ Hovered.mine) =>
                  /\ gv'.state = LOST
                  /\ minefield' = SetCell(minefield, gv.hover_x, gv.hover_y,
                                          [Hovered EXCEPT !.opened = TRUE])
           /\ (Hovered.opened /\ gv'.state = LOST) =>
                  LET cell_mound == call'.cell_mound
                      at == call'.mound_position + 1
                  IN  /\ at <= Len(cell_mound)
                      /\ Len(Chord) <= Len(cell_mound)
                      /\ SubSeq(cell_mound, 1, Len(Chord)) = Chord
                      /\ minefield[cell_mound[at].y][cell_mound[at].x].mine
                      /\ \A p \in Grid :
                             minefield'[p[2]][p[1]] =
                                 IF Point(p[1], p[2]) \in Prefix(cell_mound, at)
                                 THEN [At(p) EXCEPT !.opened = TRUE]
                                 ELSE At(p)
                      /\ Cardinality(OpenedMines(minefield')) = 1]_vars

\* open_cell on an opened cell opened two cells, then a mine, and left a
\* cell of its work list unopened; the game is lost.
C9_Witness ==
    /\ view = "game"
    /\ call.op = "open_cell"
    /\ call.state = RUNNING
    /\ call.cell.opened
    /\ gv.state = LOST
    /\ call.mound_position >= 2
    /\ \E k \in (call.mound_position + 2)..Len(call.cell_mound) :
           ~minefield[call.cell_mound[k].y][call.cell_mound[k].x].opened

\* Every cell of mf that is no mine is opened.
AllSafeOpened(mf) ==
    \A y \in DOMAIN mf : \A x \in DOMAIN mf[y] :
        ~mf[y][x].mine => mf[y][x].opened

\* C10: after an open_cell call that does not leave the game LOST, the game
\* is WON exactly if every cell that is no mine is opened; and open_cell on
\* the last unopened cell that is no mine makes the game WON, whatever
\* cells are flagged.
C10_WonIffAllSafeOpened ==
    [][OpenCell =>
           /\ gv'.state # LOST =>
                  (gv'.state = WON <=> AllSafeOpened(minefield'))
           /\ (/\ gv.state = RUNNING
               /\ ~Hovered.opened
               /\ ~Hovered.flagged
               /\ ~Hovered.mine
               /\ AllSafeOpened(SetCell(minefield, gv.hover_x, gv.hover_y,
                                        [Hovered EXCEPT !.opened = TRUE])))
                  => gv'.state = WON]_vars

\* open_cell on the last unopened safe cell of a field with a flagged mine
\* and an unflagged mine; the game is won.
C10_Witness ==
    /\ view = "game"
    /\ call.op = "open_cell"
    /\ call.state = RUNNING
    /\ ~call.cell.opened
    /\ ~call.cell.mine
    /\ gv.state = WON
    /\ \E p \in Mines : At(p).flagged
    /\ \E p \in Mines : ~At(p).flagged
    /\ Cardinality(OpenedCells) >= 2

\* The position of the cursor of the game view.
Cursor == <<gv.hover_x, gv.hover_y>>

\* The positions reached from those of S through the unopened, unflagged
\* neighbours of positions whose number is 0.
RECURSIVE Flood(_)
Flood(S) ==
    LET T == S \cup {q \in Grid :
                        /\ ~At(q).opened
                        /\ ~At(q).flagged
                        /\ \E p \in S : At(p).number = 0 /\ q \in Neighbours(p)}
    IN  IF T = S THEN S ELSE Flood(T)

\* The current field with the cells at the positions of S opened.
Opening(S) ==
    [y \in DOMAIN minefield |->
        [x \in DOMAIN minefield[y] |->
            IF <<x, y>> \in S
            THEN [minefield[y][x] EXCEPT !.opened = TRUE]
            ELSE minefield[y][x]]]

\* C11: in a RUNNING game, open_cell on an unopened, unflagged cell whose
\* number is 0 opens that cell and, transitively, the unopened unflagged
\* neighbours of every cell it opens whose number is 0, and nothing else;
\* on a cell whose number is not 0 it opens that cell only; in the 2x2
\* field with its mine at (0,0) and no cell opened yet, cell (1,1) has
\* number 1, and opening it opens nothing else and leaves the game RUNNING.
C11_FloodFromZero ==
    [][(OpenCell /\ gv.state = RUNNING /\ ~Hovered.opened /\ ~Hovered.flagged)
           =>
           /\ Hovered.number = 0 => minefield' = Opening(Flood({Cursor}))
           /\ Hovered.number # 0 => minefield' = Opening({Cursor})
           /\ (/\ difficulty.l = 2
               /\ difficulty.h = 2
               /\ Mines = {<<0, 0>>}
               /\ OpenedCells = {}
               /\ Cursor = <<1, 1>>)
                  => /\ Hovered.number = 1
                     /\ minefield' = Opening({Cursor})
                     /\ gv'.state = RUNNING]_vars

\* open_cell on an unopened cell of number 0 at the corner (2,0) of a 3x2
\* field has opened cells two steps away, and has left a flagged cell next
\* to an opened cell of number 0 unopened.
C11_Witness ==
    /\ view = "game"
    /\ call.op = "open_cell"
    /\ call.state = RUNNING
    /\ ~call.cell.opened
    /\ ~call.cell.flagged
    /\ call.cell.number = 0
    /\ difficulty.l = 3
    /\ difficulty.h = 2
    /\ Cursor = <<2, 0>>
    /\ At(<<0, 1>>).opened
    /\ \E p \in Grid :
           /\ At(p).opened
           /\ At(p).number = 0
           /\ \E q \in Neighbours(p) : At(q).flagged /\ ~At(q).opened

\* The flagged cells among the cell under the cursor and its neighbours.
FlaggedAround ==
    {q \in Neighbours(Cursor) \cup {Cursor} : At(q).flagged}

\* The unopened, unflagged neighbours of the cell under the cursor.
ClosedAround ==
    {q \in Neighbours(Cursor) : ~At(q).opened /\ ~At(q).flagged}

\* C12: in a RUNNING game, open_cell on an opened cell opens cells only
\* when the number of flagged cells around it equals its number; its work
\* list then starts with exactly its unopened, unflagged neighbours, only
\* cells flooded from them are opened, and all of them unless a mine ends
\* the call; when the counts differ, no cell is opened and the state is
\* unchanged.
C12_ChordOnEqualFlagCount ==
    [][(OpenCell /\ gv.state = RUNNING /\ Hovered.opened) =>
           /\ Cardinality(FlaggedAround) # Hovered.number =>
                  /\ minefield' = minefield
                  /\ gv' = gv
                  /\ call'.cell_mound = <<Point(gv.hover_x, gv.hover_y)>>
           /\ Cardinality(FlaggedAround) = Hovered.number =>
                  /\ call'.cell_mound[Len(Chord) + 1]
                         = Point(gv.hover_x, gv.hover_y)
                  /\ {<<point.x, point.y>> :
                          point \in Prefix(call'.cell_mound, Len(Chord))}
                         = ClosedAround
                  /\ Len(Chord) = Cardinality(ClosedAround)
                  /\ \A p \in Grid :
                         minefield'[p[2]][p[1]] # At(p)
                             => p \in Flood(ClosedAround)
                  /\ gv'.state # LOST
                         => minefield' = Opening(Flood(ClosedAround))]_vars

\* open_cell on an opened cell of number 1 or more with as many flags
\* around it has worked through two or more neighbours and the game goes
\* on.
C12_Witness ==
    /\ view = "game"
    /\ call.op = "open_cell"
    /\ call.state = RUNNING
    /\ call.cell.opened
    /\ call.cell.number >= 1
    /\ Cardinality(FlaggedAround) = call.cell.number
    /\ Len(call.cell_mound) >= 3
    /\ gv.state = RUNNING

\* C13: open_cell on a flagged cell does nothing: no cell is opened, the
\* flag stays, the flag counters and the state of the game are unchanged,
\* and the save file is left alone.
C13_OpenFlaggedIsNoOp ==
    [][(OpenCell /\ Hovered.flagged) =>
           /\ minefield' = minefield
           /\ gv' = gv
           /\ num_flagged' = num_flagged
           /\ save_file' = save_file]_vars

\* open_cell was called in a RUNNING game on a flagged safe cell, the last
\* unopened safe cell of the field; the cell is still flagged and unopened
\* and the game is still RUNNING.
C13_Witness ==
    /\ view = "game"
    /\ call.op = "open_cell"
    /\ call.state = RUNNING
    /\ call.cell.flagged
    /\ ~call.cell.mine
    /\ Hovered.flagged
    /\ ~Hovered.opened
    /\ gv.state = RUNNING
    /\ AllSafeOpened(Opening({Cursor}))

\* C14: in a RUNNING game, toggle_flag on an unopened cell flips that
\* cell's flagged bit and changes the view's num_flagged by +1 or -1 with
\* it, and changes nothing else; a second toggle_flag call right after it
\* gives back the field and the view as they were before the first.
C14_ToggleTwiceRestores ==
    [][(ToggleFlag /\ gv.state = RUNNING /\ ~Hovered.opened) =>
           /\ minefield' = SetCell(minefield, gv.hover_x, gv.hover_y,
                                   [Hovered EXCEPT !.flagged = ~Hovered.flagged])
           /\ gv' = [gv EXCEPT !.num_flagged =
                                   IF Hovered.flagged THEN @ - 1 ELSE @ + 1]
           /\ LET again == toggle_flag(minefield', gv')
              IN  /\ again.minefield = minefield
                  /\ again.gv = gv]_vars

\* toggle_flag has taken the flag off an unopened cell while another cell
\* keeps its flag.
C14_Witness ==
    /\ view = "game"
    /\ call.op = "toggle_flag"
    /\ call.state = RUNNING
    /\ ~call.cell.opened
    /\ call.cell.flagged
    /\ ~Hovered.flagged
    /\ gv.num_flagged = 1
    /\ Cardinality(FlaggedCells) = 1

\* The unopened neighbours of the cell under the cursor.
UnopenedAround == {q \in Neighbours(Cursor) : ~At(q).opened}

\* The current field with the cells at the positions of S flagged.
Flagging(S) ==
    [y \in DOMAIN minefield |->
        [x \in DOMAIN minefield[y] |->
            IF <<x, y>> \in S
            THEN [minefield[y][x] EXCEPT !.flagged = TRUE]
            ELSE minefield[y][x]]]

\* C15: in a RUNNING game, toggle_flag on an opened cell flags every
\* unopened neighbour that has no flag exactly when the number of unopened
\* cells around it equals its number, and raises num_flagged by the number
\* of cells it flags; it removes no flag; when the counts differ, no cell
\* and no counter changes.
C15_QuickFlagOnEqualCount ==
    [][(ToggleFlag /\ gv.state = RUNNING /\ Hovered.opened) =>
           /\ Cardinality(UnopenedAround) = Hovered.number =>
                  /\ minefield' = Flagging(UnopenedAround)
                  /\ gv' = [gv EXCEPT !.num_flagged =
                                @ + Cardinality(UnopenedAround \ FlaggedCells)]
           /\ Cardinality(UnopenedAround) # Hovered.number =>
                  /\ minefield' = minefield
                  /\ gv' = gv
           /\ \A p \in FlaggedCells : minefield'[p[2]][p[1]].flagged
           /\ num_flagged' = num_flagged]_vars

\* toggle_flag was called on an opened cell of number 2 with two unopened
\* cells around it; both have a flag and the view counts two flags.
C15_Witness ==
    /\ view = "game"
    /\ call.op = "toggle_flag"
    /\ call.state = RUNNING
    /\ call.cell.opened
    /\ call.cell.number = 2
    /\ Cardinality(UnopenedAround) = 2
    /\ UnopenedAround \subseteq FlaggedCells
    /\ gv.num_flagged = 2

\* C16: every open_cell call comes to its end: once the call is in its
\* loop over cell_mound, the loop is left after finitely many iterations.
C16_OpenCellTerminates == InOpenLoop ~> ~InOpenLoop

\* An open_cell call has gone through a work list of five or more entries
\* to its end, and the game goes on.
C16_Witness ==
    /\ view = "game"
    /\ call.op = "open_cell"
    /\ call.state = RUNNING
    /\ Len(call.cell_mound) >= 5
    /\ call.mound_position = Len(call.cell_mound)
    /\ gv.state = RUNNING

\* The entry of cell_mound the next iteration of the loop takes.
Taken == call.cell_mound[call.mound_position + 1]

\* How many entries of seq are the point of position p.
Entries(seq, p) ==
    Cardinality({k \in DOMAIN seq : seq[k] = Point(p[1], p[2])})

\* C17 as stated: no cell is in the work list of an open_cell call twice.
C17_NoCellTwiceInMound ==
    \A i, j \in DOMAIN call.cell_mound :
        call.cell_mound[i] = call.cell_mound[j] => i = j

\* C17 as amended: an iteration of the loop that takes an entry whose cell
\* is opened already changes no cell and adds no entry; one that takes an
\* entry whose cell is unopened opens that cell alone and adds entries only
\* for unopened, unflagged cells around it, and only if its number is 0; so
\* a cell is opened at most once in a call, and it is in the work list at
\* most once more than it has neighbours.
C17_CellOpenedOnce ==
    [][OpenStep =>
           /\ call'.mound_position \in
                  {call.mound_position, call.mound_position + 1}
           /\ SubSeq(call'.cell_mound, 1, Len(call.cell_mound))
                  = call.cell_mound
           /\ minefield[Taken.y][Taken.x].opened =>
                  /\ minefield' = minefield
                  /\ gv' = gv
                  /\ call'.cell_mound = call.cell_mound
                  /\ call'.mound_position = call.mound_position + 1
           /\ ~minefield[Taken.y][Taken.x].opened =>
                  /\ minefield' = Opening({<<Taken.x, Taken.y>>})
                  /\ Len(call'.cell_mound) > Len(call.cell_mound)
                         => minefield[Taken.y][Taken.x].number = 0
                  /\ \A k \in (Len(call.cell_mound) + 1)..Len(call'.cell_mound) :
                         LET q == <<call'.cell_mound[k].x, call'.cell_mound[k].y>>
                         IN  /\ q \in Neighbours(<<Taken.x, Taken.y>>)
                             /\ ~At(q).opened
                             /\ ~At(q).flagged
           /\ \A p \in Grid :
                  Entries(call'.cell_mound, p)
                      <= 1 + Cardinality(Neighbours(p))]_vars

\* The loop of an open_cell call has taken two entries for the same cell.
C17_Witness ==
    /\ view = "game"
    /\ call.op \in {"open_loop", "open_cell"}
    /\ \E i, j \in 1..call.mound_position :
           i < j /\ call.cell_mound[i] = call.cell_mound[j]

\* has_saved_game is false, and the game on screen is over or the main menu
\* is on screen.
NoSaveAndNoGame ==
    /\ ~save_file.exists
    /\ (view = "game" /\ Over) \/ view = "menu"

\* C18: an open_cell call that makes the game LOST or WON leaves no save
\* file; and from then on has_saved_game stays false, through the rest of
\* the game view and the quit to the main menu, until a new field is
\* generated.
C18_NoSaveAfterGameOver ==
    [][/\ (OpenCell /\ gv.state = RUNNING /\ gv'.state \in {WON, LOST})
              => (~save_file'.exists /\ NoSaveAndNoGame')
       /\ NoSaveAndNoGame => (NoSaveAndNoGame' \/ view' = "generating")
       /\ (view = "generating" /\ ~save_file.exists /\ save_file'.exists)
              => GenSave]_vars

\* A lost game was quit: the main menu is on screen, the field holds an
\* opened mine and there is no save file.
C18_Witness ==
    /\ view = "menu"
    /\ ~save_file.exists
    /\ minefield # <<>>
    /\ OpenedMines(minefield) # {}

\* The field mf has no opened mine and has an unopened cell that is no
\* mine.
Unfinished(mf) ==
    /\ \A y \in DOMAIN mf : \A x \in DOMAIN mf[y] :
           ~(mf[y][x].mine /\ mf[y][x].opened)
    /\ \E y \in DOMAIN mf : \E x \in DOMAIN mf[y] :
           ~mf[y][x].mine /\ ~mf[y][x].opened

\* C19: whenever a save file exists, the field load_minefield reads from
\* it has no opened mine and has an unopened cell that is no mine; and the
\* field of every game that is RUNNING, a game resumed by a load included,
\* is such a field.
C19_SavedGameIsUnfinished ==
    /\ save_file.exists =>
           LET self == load_minefield(Self, save_file)
           IN  Unfinished(self.minefield)
    /\ (view = "game" /\ gv.state = RUNNING) => Unfinished(minefield)

\* A game that was quit with a cell opened and a cell flagged has been
\* resumed by a load and is RUNNING.
C19_Witness ==
    /\ view = "game"
    /\ call.op = "none"
    /\ gv.state = RUNNING
    /\ save_file.exists
    /\ OpenedCells # {}
    /\ FlaggedCells # {}

\* C20: load_minefield called without a save file does not return the way
\* a load that succeeded returns: whenever it has returned normally, there
\* was a save file to read.
C20_LoadWithoutFileFails == Loaded => save_file.exists

\* C21: load_minefield does not complete on a save file that ends before
\* its 5 header bytes and the ceil(length*height/8) blocks of the field it
\* announces: whenever a load has returned normally, the file holds the
\* header and every block of the field the load produced.
C21_ShortFileFails ==
    (Loaded /\ save_file.exists) =>
        /\ Len(save_file.bytes) >= 5
        /\ Len(save_file.bytes) >= 5 + 3 * Blocks

\* C22: after a load the difficulty is Option(length, height, density) with
\* density = floor(num_mines * 100 / (length * height)), a value in 0..100.
C22_LoadedDensity ==
    (Loaded /\ save_file.exists) =>
        /\ difficulty = Option(Cardinality(DOMAIN minefield[0]),
                               Cardinality(DOMAIN minefield),
                               (num_mines * 100) \div Area)
        /\ difficulty.d \in 0..100

\* The generator or loader thread is running.
Working == worker.pc \in {"gen_loop", "load_start", "load_loop"}

\* C23: while a generation or a load runs, the published progress never
\* decreases from one step of the thread to the next and lies in 0..100.
C23_ProgressNeverDecreases ==
    [][Working => /\ gen_progress' >= gen_progress
                  /\ gen_progress' \in 0..100]_vars

C23_Witness ==
    /\ worker.pc = "load_loop"
    /\ gen_progress \in 1..99
    /\ num_mines > 0

\* C24: the progress equals 100 only once every mine is placed: while
\* generate_minefield has mines left to place, the observer does not read
\* 100.
C24_HundredOnlyWhenDone ==
    (worker.pc = "gen_loop" /\ gen_progress = 100) => worker.mines_left = 0

\* C25: the game view is entered only once the generator or loader thread
\* has ended, and every game operation (move, toggle_flag, open_cell, quit
\* with its save) is taken while no such thread exists.
C25_GameAfterThreadEnds ==
    [][/\ view' = "game" => worker'.pc = "idle"
       /\ (Move \/ ToggleFlag \/ OpenCell \/ Quit) => worker.pc = "idle"]_vars

C25_Witness ==
    /\ view = "game"
    /\ call.op = "open_cell"
    /\ worker.pc = "idle"
    /\ OpenedCells # {}

\* The positions of the field as it is stored, also while a load has not
\* yet set the difficulty.
Stored ==
    UNION {{<<x, y>> : x \in DOMAIN minefield[y]} : y \in DOMAIN minefield}

C27_CursorInsideGrid ==
    view = "game" =>
        /\ Cursor \in Grid
        /\ <<hover_x, hover_y>> \in Grid
        /\ \A i \in 1..Len(call.cell_mound) :
               <<call.cell_mound[i].x, call.cell_mound[i].y>> \in Grid

C27_Witness ==
    /\ view = "game"
    /\ call.op = "toggle_goto_graphics"
    /\ ~gv.show_goto
    /\ gv.pos_x.value = gv.pos_x.maximum
    /\ Cursor = <<difficulty.l - 1, difficulty.h - 1>>
    /\ difficulty.l > 1
    /\ difficulty.h > 1

\* C28: generate_minefield never completes with zero mines: an Option whose
\* mine count would not be positive is rejected, so a generation that has
\* returned has placed at least one mine.
C28_NoFieldWithoutMines ==
    Generated => /\ num_mines >= 1
                 /\ Mines # {}

\* The cell at p after the step.
After(p) == minefield'[p[2]][p[1]]

\* C29: once the field is generated or loaded, no step of the game view
\* changes a mine or a number; open_cell only opens cells and may change the
\* game state, leaving the flags, num_flagged and the cursor; toggle_flag
\* only changes flags and num_flagged, leaving the opened bits, the game
\* state and the cursor.
C29_FrameOfGameOperations ==
    [][/\ view = "game" =>
            /\ DOMAIN minefield' = DOMAIN minefield
            /\ \A p \in Grid : /\ After(p).mine = At(p).mine
                               /\ After(p).number = At(p).number
       /\ OpenCell =>
            /\ \A p \in Grid : /\ After(p).flagged = At(p).flagged
                               /\ At(p).opened => After(p).opened
            /\ gv' = [gv EXCEPT !.state = gv'.state]
            /\ <<hover_x, hover_y, num_flagged, num_mines, difficulty>>'
                   = <<hover_x, hover_y, num_flagged, num_mines, difficulty>>
       /\ ToggleFlag =>
            /\ \A p \in Grid : After(p).opened = At(p).opened
            /\ gv' = [gv EXCEPT !.num_flagged = gv'.num_flagged]
            /\ <<hover_x, hover_y, num_mines, difficulty>>'
                   = <<hover_x, hover_y, num_mines, difficulty>>]_vars

C29_Witness ==
    /\ view = "game"
    /\ call.op = "open_cell"
    /\ Len(call.cell_mound) > 1
    /\ Cardinality(OpenedCells) > 1
    /\ FlaggedCells # {}
    /\ gv.state = RUNNING

\* C30: when generate_minefield has returned, the save file exists and
\* load_minefield on it gives the field just generated: the same length and
\* height, the same mines and numbers, every cell unopened and unflagged,
\* and the cursor at (0, 0).
C30_GeneratedFieldIsSaved ==
    Generated =>
        /\ save_file.exists
        /\ LET self == load_minefield(Self, save_file)
           IN  /\ self.difficulty.l = difficulty.l
               /\ self.difficulty.h = difficulty.h
               /\ self.minefield = minefield
               /\ self.num_mines = Cardinality(Mines)
               /\ self.num_flagged = 0
               /\ \A p \in Grid :
                      /\ ~self.minefield[p[2]][p[1]].opened
                      /\ ~self.minefield[p[2]][p[1]].flagged
               /\ self.hover_x = 0
               /\ self.hover_y = 0

C30_Witness ==
    /\ Generated
    /\ save_file.exists
    /\ Blocks = 2
    /\ Cardinality(Mines) = 8
    /\ load_minefield(Self, save_file).num_mines = 8

\* generate_minefield is at its placement loop, and inside it.
Placing == worker.pc = "gen_loop"

InPlaceLoop == Placing /\ worker.mines_left > 0

\* C31: generate_minefield terminates when the random picks are fair: while
\* mines are left to place a cell without a mine remains, a pick of such a
\* cell lowers mines_left by one and no step raises it, and the loop is left
\* with mines_left = 0.
C31_GenerationTerminates ==
    /\ [](InPlaceLoop =>
            \E y \in DOMAIN minefield : \E x \in DOMAIN minefield[y] :
                ~minefield[y][x].mine)
    /\ [][Placing /\ worker'.pc = "gen_loop" =>
            /\ worker'.mines_left = worker.mines_left - 1
            /\ worker.mines_left > 0]_vars
    /\ [][GenSave => worker.mines_left = 0]_vars
    /\ InPlaceLoop ~> ~InPlaceLoop

C31_Witness ==
    /\ Generated
    /\ Area = GenMaxCells
    /\ Cardinality(Mines) = Area - 1
    /\ gen_progress = 100

\* C32: every run of the generating view and of the continue view comes to
\* its end: once the generator or loader thread has returned, the progress
\* reads 100, so that the Feedback thread leaves its loop, both joins return
\* and the view goes on to reset the progress.
C32_FeedbackCanExit == (Generated \/ Loaded) => gen_progress = 100

\* C33: in the game view, whatever open_cell, toggle_flag, move, quit and
\* load steps led there: while the game is RUNNING no mine is opened and a
\* cell without a mine is unopened; when it is LOST exactly one mine is
\* opened; when it is WON every cell without a mine is opened and no mine is.
C33_StateMatchesField ==
    view = "game" =>
        LET opened_mines == {p \in Mines : At(p).opened}
            closed_safe == {p \in Grid \ Mines : ~At(p).opened}
        IN  /\ gv.state \in {RUNNING, WON, LOST}
            /\ gv.state = RUNNING => opened_mines = {} /\ closed_safe # {}
            /\ gv.state = LOST => Cardinality(opened_mines) = 1
            /\ gv.state = WON => opened_mines = {} /\ closed_safe = {}

C33_Witness ==
    /\ view = "game"
    /\ gv.state = LOST
    /\ Cardinality(Mines) = 2
    /\ Cardinality({p \in Mines : At(p).opened}) = 1
    /\ FlaggedCells # {}

\* C34: no cell is both opened and flagged, in any state of the field that
\* open_cell, toggle_flag, save and load lead to: a flagged cell is not
\* opened and an opened cell is not flagged.
C34_NeverOpenedAndFlagged ==
    \A p \in Stored : ~(At(p).opened /\ At(p).flagged)

\* open_cell on an opened cell has opened around it, next to a flag.
C34_Witness ==
    /\ view = "game"
    /\ call.op = "open_cell"
    /\ call.cell.opened
    /\ Len(call.cell_mound) >= 2
    /\ FlaggedCells # {}
    /\ FlaggedCells \cap OpenedCells = {}

\* C35: in every state of a game view, the num_flagged counter of the view
\* is the number of cells whose flagged bit is set, after single toggles and
\* quick-flags, and in a view created after a load.
C35_CounterMatchesFlags ==
    view = "game" => gv.num_flagged = Cardinality(FlaggedCells)

\* A game loaded with one flag (the Model's count, set by the load), in which
\* a second flag was set.
C35_Witness ==
    /\ view = "game"
    /\ num_flagged = 1
    /\ call.op = "toggle_flag"
    /\ gv.num_flagged = 2
    /\ Cardinality(FlaggedCells) = 2

\* The number of entries open_cell starts its work list with: the target,
\* preceded by the cells of the chord test when that test passes.
Started ==
    LET near == Near(gv.hover_x, gv.hover_y, gv.difficulty)
    IN  IF Hovered.opened /\ Len(Flagged(minefield, near)) = Hovered.number
        THEN Len(Chord) + 1
        ELSE 1

\* C36: the cascade opens no mine: every entry that an open_cell call adds
\* to its work list because a cell it opened has number 0 is a cell without
\* a mine, and a call that leaves the game LOST has opened its mine among
\* the entries it started with, the target or a cell of the chord test.
C36_CascadeOpensNoMine ==
    [][(OpenCell /\ gv.state = RUNNING /\ ~Hovered.flagged) =>
           LET cell_mound == call'.cell_mound
           IN  /\ Started <= Len(cell_mound)
               /\ \A i \in (Started + 1)..Len(cell_mound) :
                      ~minefield[cell_mound[i].y][cell_mound[i].x].mine
               /\ gv'.state = LOST =>
                      call'.mound_position + 1 <= Started]_vars

\* open_cell on an unopened cell with number 0 has opened five or more
\* cells of a field with a mine, and the game goes on.
C36_Witness ==
    /\ view = "game"
    /\ call.op = "open_cell"
    /\ call.state = RUNNING
    /\ ~call.cell.opened
    /\ call.cell.number = 0
    /\ Len(call.cell_mound) >= 5
    /\ Cardinality(OpenedCells) >= 4
    /\ Mines # {}
    /\ gv.state = RUNNING

\* C37: quick-flag is sound: in a RUNNING game, every cell that toggle_flag
\* on an opened cell flags holds a mine.
C37_QuickFlagFlagsMines ==
    [][(ToggleFlag /\ gv.state = RUNNING /\ Hovered.opened) =>
           \A p \in Grid :
               (After(p).flagged /\ ~At(p).flagged) => At(p).mine]_vars

\* toggle_flag on an opened cell with number 2 or more; every unopened cell
\* around it is flagged, next to a flag on a cell without a mine elsewhere.
C37_Witness ==
    /\ view = "game"
    /\ call.op = "toggle_flag"
    /\ call.state = RUNNING
    /\ call.cell.opened
    /\ call.cell.number >= 2
    /\ UnopenedAround \subseteq FlaggedCells \cap Mines
    /\ FlaggedCells \ Mines # {}

\* C38: chord-open is safe under correct flags: in a RUNNING game, when
\* every flagged cell around an opened cell holds a mine, open_cell on that
\* cell does not move the game to LOST.
C38_ChordSafeUnderCorrectFlags ==
    [][(/\ OpenCell
        /\ gv.state = RUNNING
        /\ Hovered.opened
        /\ \A q \in Neighbours(Cursor) : At(q).flagged => At(q).mine) =>
           gv'.state # LOST]_vars

\* open_cell on an opened cell of number 1 or more passed the chord test and
\* opened cells around it: the work list has three entries or more, the
\* flags around the cell are on mines, and the game is not LOST.
C38_Witness ==
    /\ view = "game"
    /\ call.op = "open_cell"
    /\ call.state = RUNNING
    /\ call.cell.opened
    /\ call.cell.number >= 1
    /\ Len(call.cell_mound) >= 3
    /\ FlaggedAround # {}
    /\ FlaggedAround \subseteq Mines
    /\ gv.state # LOST

====
